---- MODULE Spec2Model ----
(***************************************************************************)
(* A model of the ITS compiler (its-compiler-js): the variable processor,  *)
(* the conditional evaluator, the security validator, the schema loader    *)
(* and the compiler that sequences them.                                   *)
(*                                                                         *)
(* Strings are sequences of one-character strings, so that the regular     *)
(* expressions and the character loops of the source are modelled by what  *)
(* they do on the characters.  JavaScript values are records [t, v] with   *)
(* t the type tag and v the payload.                                       *)
(***************************************************************************)
EXTENDS Integers, Sequences, FiniteSets, TLC

VARIABLES
    op,          \* which operation this behaviour exercises, and its stage
    template,    \* the template document handed to compile / validateTemplate
    callerVars,  \* the variables argument of compile()
    varRef,      \* the reference handed to resolveVariableReference
    store,       \* the variable store a reference or expression is resolved against
    config,      \* the SecurityConfig the validator was constructed with
    url,         \* the URL handed to validateSchemaUrl
    result,      \* what the operation returned or raised
    cache,       \* SchemaLoader.cache: resolved URL -> entry
    now,         \* Date.now(), counted from the construction of the loader
    calls,       \* the loadSchema calls made so far, in the order they began
    events,      \* what the loader did, in order: lookups, fetches, saves, clears
    network,     \* what the network answers to a fetch of each URL
    jsepBuild,   \* the node type the installed jsep gives to && and ||
    stages       \* the stages of its pipeline that a compile() call entered, in order

vars == <<op, template, callerVars, varRef, store, config, url, result,
          cache, now, calls, events, network, jsepBuild, stages>>

\* the state of the schema loader
loaderVars == <<cache, now, calls, events>>

(***************************************************************************)
(* Bounds of the model.                                                    *)
(***************************************************************************)
MaxArrayLen == 3
MaxIndex == 4
MaxCalls == 3
MaxTicks == 2
MaxClears == 1

(***************************************************************************)
(* Characters and strings.                                                 *)
(***************************************************************************)
\* value bound to the parameter of Body: a local constant of the code
Let(value, Body(_)) == Body(value)

LowerSeq == <<"a","b","c","d","e","f","g","h","i","j","k","l","m",
              "n","o","p","q","r","s","t","u","v","w","x","y","z">>
UpperSeq == <<"A","B","C","D","E","F","G","H","I","J","K","L","M",
              "N","O","P","Q","R","S","T","U","V","W","X","Y","Z">>
DigitSeq == <<"0","1","2","3","4","5","6","7","8","9">>

Range(s) == {s[i] : i \in DOMAIN s}

Lower == Range(LowerSeq)
Upper == Range(UpperSeq)
Digits == Range(DigitSeq)
IdentStart == Lower \cup Upper \cup {"_"}
IdentChar == IdentStart \cup Digits
IndexChar == Digits \cup {"-"}
WhiteSpace == {" ", "\n", "\t"}

\* c.toLowerCase() for one character
ToLowerChar(c) ==
    IF c \in Upper THEN LowerSeq[CHOOSE i \in 1..26 : UpperSeq[i] = c] ELSE c

\* s.toLowerCase()
ToLowerCase(s) == [i \in DOMAIN s |-> ToLowerChar(s[i])]

\* the value of a decimal digit
DigitValue(c) == (CHOOSE i \in 1..10 : DigitSeq[i] = c) - 1

\* p occurs in s starting at position i
MatchAt(s, i, p) ==
    /\ i >= 1
    /\ i + Len(p) - 1 <= Len(s)
    /\ \A k \in 1..Len(p) : s[i + k - 1] = p[k]

\* s.includes(p)
Includes(s, p) == \E i \in 1..(Len(s) + 1) : MatchAt(s, i, p)

\* s.startsWith(p)
StartsWith(s, p) == MatchAt(s, 1, p)

\* the first position >= i of s that holds no character of class, Len(s)+1 if none
RunEnd(s, i, class) ==
    LET stops == {j \in i..(Len(s) + 1) : j = Len(s) + 1 \/ s[j] \notin class}
    IN  CHOOSE j \in stops : \A k \in stops : j <= k

\* s.trim()
Trim(s) ==
    LET keep == {i \in DOMAIN s : s[i] \notin WhiteSpace}
    IN  IF keep = {} THEN <<>>
        ELSE LET lo == CHOOSE i \in keep : \A k \in keep : i <= k
                 hi == CHOOSE i \in keep : \A k \in keep : i >= k
             IN  SubSeq(s, lo, hi)

\* String(n) for an integer n, in decimal
RECURSIVE NatToString(_)
NatToString(n) ==
    IF n < 10 THEN <<DigitSeq[n + 1]>>
    ELSE NatToString(n \div 10) \o <<DigitSeq[(n % 10) + 1]>>

NumberToString(n) == IF n < 0 THEN <<"-">> \o NatToString(0 - n) ELSE NatToString(n)

(***************************************************************************)
(* JavaScript values.                                                      *)
(***************************************************************************)
Str(s) == [t |-> "string", v |-> s]
Num(n) == [t |-> "number", v |-> n]
Bool(b) == [t |-> "boolean", v |-> b]
Null == [t |-> "null", v |-> 0]
Undefined == [t |-> "undefined", v |-> 0]
Arr(a) == [t |-> "array", v |-> a]
Obj(f) == [t |-> "object", v |-> f]
Fn(name) == [t |-> "function", v |-> name]
NaN == [t |-> "NaN", v |-> 0]

\* what an operation returns, or the error it raises
Ok(v) == [ok |-> TRUE, v |-> v, err |-> "none", rule |-> "none"]
Err(e) == [ok |-> FALSE, v |-> Undefined, err |-> e, rule |-> "none"]

\* an ITSSecurityError raised under the given securityRule
SecurityError(rule) ==
    [ok |-> FALSE, v |-> Undefined, err |-> "ITSSecurityError", rule |-> rule]

(***************************************************************************)
(* Names used by the templates and variable stores of the model.           *)
(***************************************************************************)
sTopic == <<"t","o","p","i","c">>
sCount == <<"c","o","u","n","t">>
sItems == <<"i","t","e","m","s">>
sUser == <<"u","s","e","r">>
sName == <<"n","a","m","e">>
sLength == <<"l","e","n","g","t","h">>
sToString == <<"t","o","S","t","r","i","n","g">>
sConstructor == <<"c","o","n","s","t","r","u","c","t","o","r">>
sPrototype == <<"p","r","o","t","o","t","y","p","e">>
sProto == <<"_","_","p","r","o","t","o","_","_">>
sValueOf == <<"v","a","l","u","e","O","f">>

\* property names every object inherits from Object.prototype (a selection)
ObjectPrototypeKeys == {sToString, sConstructor, sValueOf, sProto}

\* `name in value` of JavaScript, for an object or an array
HasProperty(value, name) ==
    \/ name \in ObjectPrototypeKeys
    \/ value.t = "object" /\ name \in DOMAIN value.v
    \/ value.t = "array" /\ name = sLength

\* the constructor of the values of a type
ClassOf(t) ==
    CASE t = "array" -> <<"A","r","r","a","y">>
      [] t = "string" -> <<"S","t","r","i","n","g">>
      [] t \in {"number", "NaN"} -> <<"N","u","m","b","e","r">>
      [] t = "boolean" -> <<"B","o","o","l","e","a","n">>
      [] t = "function" -> <<"F","u","n","c","t","i","o","n">>
      [] OTHER -> <<"O","b","j","e","c","t">>

\* value[name] for a name of ObjectPrototypeKeys that a value of the type
\* inherits: the prototype itself, or a function, told by where it lives
InheritedProperty(t, name) ==
    IF name = sProto THEN (IF t = "array" THEN Arr(<<>>) ELSE Obj(<<>>))
    ELSE IF name = sConstructor THEN Fn(ClassOf(t))
    ELSE IF name = sValueOf /\ t \in {"array", "object", "function"}
    THEN Fn(<<"O","b","j","e","c","t",".","p","r","o","t","o","t","y","p","e",".">> \o name)
    ELSE Fn(ClassOf(t) \o <<".","p","r","o","t","o","t","y","p","e",".">> \o name)

\* value[name], for a name that is `in` value
GetProperty(value, name) ==
    IF value.t = "object" /\ name \in DOMAIN value.v THEN value.v[name]
    ELSE IF value.t = "array" /\ name = sLength THEN Num(Len(value.v))
    ELSE InheritedProperty(value.t, name)

(***************************************************************************)
(* VariableProcessor: references such as user.name or items[-1].           *)
(***************************************************************************)

\* parseInt(s, 10): optional sign, then the longest run of digits
ParseInt(s) ==
    Let(Trim(s), LAMBDA t :
    Let(IF Len(t) >= 1 /\ t[1] \in {"-", "+"} THEN 2 ELSE 1, LAMBDA from :
    Let(RunEnd(t, from, Digits), LAMBDA to :
    LET Value[k \in from - 1..Len(t)] ==
            IF k < from THEN 0 ELSE 10 * Value[k - 1] + DigitValue(t[k])
    IN  IF to = from THEN NaN
        ELSE Num((IF t[1] = "-" THEN -1 ELSE 1) * Value[to - 1]))))

\* the steps (\.ident | \[[0-9-]+\])* of the reference pattern, from position i
RECURSIVE MatchSteps(_, _)
MatchSteps(s, i) ==
    IF i > Len(s) THEN TRUE
    ELSE IF s[i] = "." THEN
        /\ i + 1 <= Len(s)
        /\ s[i + 1] \in IdentStart
        /\ MatchSteps(s, RunEnd(s, i + 2, IdentChar))
    ELSE IF s[i] = "[" THEN
        LET k == RunEnd(s, i + 1, IndexChar)
        IN  /\ k > i + 1
            /\ k <= Len(s)
            /\ s[k] = "]"
            /\ MatchSteps(s, k + 1)
    ELSE FALSE

isValidVariableReference(ref) ==
    /\ ~Includes(ref, <<".", ".">>)
    /\ ~StartsWith(ref, <<"_">>)
    /\ ~Includes(ref, <<"_", "_">>)
    /\ Len(ref) >= 1
    /\ ref[1] \in IdentStart
    /\ MatchSteps(ref, RunEnd(ref, 2, IdentChar))

PropertyPart(name) == [type |-> "property", name |-> name, index |-> 0]
IndexPart(n) == [type |-> "index", name |-> <<>>, index |-> n]

\* the while loop of parseVariableReference: i is the position, current the
\* name collected so far, parts the steps pushed so far
RECURSIVE ParseLoop(_, _, _, _)
ParseLoop(ref, i, current, parts) ==
    IF i <= Len(ref) /\ ref[i] \notin {".", "["}
    THEN ParseLoop(ref, i + 1, Append(current, ref[i]), parts)
    ELSE
    Let(IF current # <<>> THEN Append(parts, PropertyPart(current)) ELSE parts,
        LAMBDA flushed :
    IF i > Len(ref) THEN Ok(flushed)
    ELSE IF ref[i] = "." THEN ParseLoop(ref, i + 1, <<>>, flushed)
    ELSE
    Let(RunEnd(ref, i + 1, Range(ref) \ {"]"}), LAMBDA close :
    IF close > Len(ref) THEN Err("ITSVariableError")
    ELSE
    Let(ParseInt(SubSeq(ref, i + 1, close - 1)), LAMBDA index :
    IF index = NaN THEN Err("ITSVariableError")
    ELSE ParseLoop(ref, close + 1, <<>>, Append(flushed, IndexPart(index.v))))))

parseVariableReference(ref) == ParseLoop(ref, 1, <<>>, <<>>)

\* a property step of resolveVariableReference: the value, or the error raised;
\* done is set when the step is the virtual terminal step .length
PropertyStep(current, name) ==
    IF name = sLength /\ current.t \in {"array", "string"}
    THEN [Ok(Num(Len(current.v))) EXCEPT !.err = "return"]
    ELSE IF current.t \notin {"object", "array"} THEN Err("ITSVariableError")
    ELSE IF ~HasProperty(current, name) THEN Err("ITSVariableError")
    ELSE Ok(GetProperty(current, name))

\* the same with the bounds check of the negative branch left out: JavaScript
\* then reads a missing element, which is undefined
IndexStepUnchecked(current, index) ==
    IF current.t # "array" THEN Err("ITSVariableError")
    ELSE IF index < 0 THEN
        LET actualIndex == Len(current.v) + index
        IN  IF actualIndex < 0 THEN Ok(Undefined) ELSE Ok(current.v[actualIndex + 1])
    ELSE IF index >= Len(current.v) THEN Err("ITSVariableError")
    ELSE Ok(current.v[index + 1])

\* an index step of resolveVariableReference: the element, or the error raised
IndexStep(current, index) ==
    IF current.t # "array" THEN Err("ITSVariableError")
    ELSE IF index < 0 THEN
        LET actualIndex == Len(current.v) + index
        IN  IF actualIndex < 0 \/ actualIndex >= Len(current.v)
            THEN Err("ITSVariableError")
            ELSE Ok(current.v[actualIndex + 1])
    ELSE IF index >= Len(current.v) THEN Err("ITSVariableError")
    ELSE Ok(current.v[index + 1])

\* the for loop of resolveVariableReference over the parsed steps
RECURSIVE ResolveLoop(_, _, _)
ResolveLoop(parts, i, current) ==
    IF i > Len(parts) THEN Ok(current)
    ELSE
    Let(IF parts[i].type = "property" THEN PropertyStep(current, parts[i].name)
        ELSE IndexStep(current, parts[i].index), LAMBDA step :
    IF ~step.ok THEN step
    ELSE IF step.err = "return" THEN Ok(step.v)
    ELSE ResolveLoop(parts, i + 1, step.v))

resolveVariableReference(ref, variables) ==
    IF ~isValidVariableReference(ref) THEN Err("ITSVariableError")
    ELSE
    Let(parseVariableReference(ref), LAMBDA parsed :
    IF ~parsed.ok THEN parsed ELSE ResolveLoop(parsed.v, 1, variables))


(***************************************************************************)
(* new URL(url): the parts of a parsed URL that validateSchemaUrl reads.   *)
(* The host parser is the one of the URL standard: for the special schemes *)
(* a host that ends in a number is an IPv4 address, whose parts may be     *)
(* decimal, octal (leading 0) or hexadecimal (leading 0x), the last part   *)
(* filling the remaining bytes; it is serialised as four decimal octets.   *)
(***************************************************************************)
HexSeq == <<"0","1","2","3","4","5","6","7","8","9","a","b","c","d","e","f">>
HexDigits == Range(HexSeq)
SchemeChar == Lower \cup Digits \cup {"+", "-", "."}
SpecialSchemes == {<<"h","t","t","p">>, <<"h","t","t","p","s">>, <<"f","t","p">>,
                   <<"f","i","l","e">>, <<"w","s">>, <<"w","s","s">>}

HexValue(c) == (CHOOSE i \in 1..16 : HexSeq[i] = c) - 1

\* the number a string of digits denotes in the given base
DigitsValue(s, base) ==
    LET Value[k \in 0..Len(s)] ==
            IF k = 0 THEN 0 ELSE base * Value[k - 1] + HexValue(s[k])
    IN  Value[Len(s)]

\* one part of an IPv4 host: its value, or -1 when it is no number
Ipv4PartValue(part) ==
    IF part = <<>> THEN -1
    ELSE IF Len(part) >= 2 /\ part[1] = "0" /\ part[2] = "x" THEN
        IF Range(SubSeq(part, 3, Len(part))) \subseteq HexDigits
        THEN DigitsValue(SubSeq(part, 3, Len(part)), 16) ELSE -1
    ELSE IF Len(part) >= 2 /\ part[1] = "0" THEN
        IF Range(part) \subseteq {"0","1","2","3","4","5","6","7"}
        THEN DigitsValue(part, 8) ELSE -1
    ELSE IF Range(part) \subseteq Digits THEN DigitsValue(part, 10) ELSE -1

\* s split at every occurrence of the character sep
RECURSIVE SplitAt(_, _)
SplitAt(s, sep) ==
    LET cut == RunEnd(s, 1, Range(s) \ {sep})
    IN  IF cut > Len(s) THEN <<s>>
        ELSE <<SubSeq(s, 1, cut - 1)>> \o SplitAt(SubSeq(s, cut + 1, Len(s)), sep)

\* the parts joined again with sep between them
RECURSIVE JoinWith(_, _)
JoinWith(parts, sep) ==
    IF parts = <<>> THEN <<>>
    ELSE IF Len(parts) = 1 THEN parts[1]
    ELSE JoinWith(SubSeq(parts, 1, Len(parts) \div 2), sep) \o sep
         \o JoinWith(SubSeq(parts, (Len(parts) \div 2) + 1, Len(parts)), sep)

Pow256(n) == IF n = 0 THEN 1 ELSE IF n = 1 THEN 256 ELSE IF n = 2 THEN 65536 ELSE 16777216

\* octet i of an IPv4 host whose parts have these values: the last part
\* fills the remaining bytes
Ipv4Octet(values, i) ==
    IF i < Len(values) THEN values[i]
    ELSE (values[Len(values)] \div Pow256(4 - i)) % 256

\* whether the last part of a host is a number
EndsInNumber(last) ==
    /\ last # <<>>
    /\ \/ Range(last) \subseteq Digits
       \/ Ipv4PartValue(last) >= 0

\* the host parser for a special scheme: the serialised host, or failure
ParseHost(rawHost) ==
    Let(ToLowerCase(rawHost), LAMBDA host :
    IF host = <<>> THEN Err("TypeError")
    ELSE IF host[1] = "[" THEN
        IF host[Len(host)] = "]" THEN Ok(host) ELSE Err("TypeError")
    ELSE
    Let(SplitAt(host, "."), LAMBDA split :
    Let(IF Len(split) > 1 /\ split[Len(split)] = <<>>
        THEN SubSeq(split, 1, Len(split) - 1) ELSE split, LAMBDA parts :
    Let(Len(parts), LAMBDA n :
    IF ~EndsInNumber(parts[n]) THEN Ok(host)
    ELSE IF n > 4 THEN Err("TypeError")
    ELSE
    Let([i \in 1..n |-> Ipv4PartValue(parts[i])], LAMBDA values :
    IF \E i \in 1..n : values[i] < 0 THEN Err("TypeError")
    ELSE IF \E i \in 1..(n - 1) : values[i] > 255 THEN Err("TypeError")
    ELSE IF n > 1 /\ values[n] >= Pow256(5 - n) THEN Err("TypeError")
    ELSE Ok(JoinWith([i \in 1..4 |-> NumberToString(Ipv4Octet(values, i))],
                     <<".">>)))))))

\* the path of a special scheme with its . and .. segments resolved
RECURSIVE RemoveDotSegments(_, _)
RemoveDotSegments(segments, out) ==
    IF segments = <<>> THEN out
    ELSE IF Head(segments) = <<".", ".">> THEN
        RemoveDotSegments(Tail(segments),
                          IF out = <<>> THEN out ELSE SubSeq(out, 1, Len(out) - 1))
    ELSE IF Head(segments) = <<".">> THEN RemoveDotSegments(Tail(segments), out)
    ELSE RemoveDotSegments(Tail(segments), Append(out, Head(segments)))

NormalisePath(path) ==
    IF path = <<>> THEN <<"/">>
    ELSE <<"/">> \o JoinWith(RemoveDotSegments(SplitAt(Tail(path), "/"), <<>>), <<"/">>)

ParsedUrl(protocol, hostname, pathname) ==
    [protocol |-> protocol, hostname |-> hostname, pathname |-> pathname]

\* the special schemes other than file take any run of slashes and
\* backslashes before the host, even none
SlashTolerantSchemes == SpecialSchemes \ {<<"f","i","l","e">>}

\* the characters that end the host
HostTerminators(scheme) == IF scheme \in SpecialSchemes THEN {"/", "\\"} ELSE {"/"}

\* new URL(text): Ok of the parsed URL, or the TypeError it raises.  The URLs
\* of the model carry no credentials, port, query or fragment.
NewURL(text) ==
    Let(RunEnd(text, 1, Range(text) \ {":"}), LAMBDA colon :
    IF colon > Len(text) \/ colon = 1 THEN Err("TypeError")
    ELSE
    Let(ToLowerCase(SubSeq(text, 1, colon - 1)), LAMBDA scheme :
    Let(SubSeq(text, colon + 1, Len(text)), LAMBDA rest :
    IF scheme[1] \notin Lower \/ ~(Range(scheme) \subseteq SchemeChar)
    THEN Err("TypeError")
    ELSE IF scheme \notin SlashTolerantSchemes /\ ~StartsWith(rest, <<"/", "/">>)
    THEN Ok(ParsedUrl(scheme \o <<":">>, <<>>, rest))
    ELSE
    Let(IF scheme \in SlashTolerantSchemes
        THEN SubSeq(rest, RunEnd(rest, 1, {"/", "\\"}), Len(rest))
        ELSE SubSeq(rest, 3, Len(rest)), LAMBDA afterSlashes :
    Let(RunEnd(afterSlashes, 1, Range(afterSlashes) \ HostTerminators(scheme)),
        LAMBDA hostEnd :
    Let(SubSeq(afterSlashes, 1, hostEnd - 1), LAMBDA rawHost :
    Let(SubSeq(afterSlashes, hostEnd, Len(afterSlashes)), LAMBDA rawPath :
    IF scheme = <<"f","i","l","e">> /\ rawHost = <<>>
    THEN Ok(ParsedUrl(scheme \o <<":">>, <<>>, NormalisePath(rawPath)))
    ELSE IF scheme \in SpecialSchemes THEN
        Let(ParseHost(rawHost), LAMBDA host :
        IF ~host.ok THEN host
        ELSE Ok(ParsedUrl(scheme \o <<":">>, host.v, NormalisePath(rawPath))))
    ELSE Ok(ParsedUrl(scheme \o <<":">>, rawHost, rawPath)))))))))


(***************************************************************************)
(* SecurityValidator: the SSRF guard.                                      *)
(***************************************************************************)
sHttp == <<"h","t","t","p">>
sHttps == <<"h","t","t","p","s">>
sFtp == <<"f","t","p">>
sFile == <<"f","i","l","e">>
sLocalhost == <<"l","o","c","a","l","h","o","s","t">>
sExampleCom == <<"e","x","a","m","p","l","e",".","c","o","m">>

\* s.endsWith(p)
EndsWith(s, p) == MatchAt(s, Len(s) - Len(p) + 1, p)

dangerousProtocols ==
    {sFile \o <<":">>, sFtp \o <<":">>, <<"g","o","p","h","e","r",":">>,
     <<"l","d","a","p",":">>, <<"d","i","c","t",":">>, <<"d","a","t","a",":">>}

localhostVariants ==
    {sLocalhost, <<"1","2","7",".","0",".","0",".","1">>,
     <<"0",".","0",".","0",".","0">>, <<":",":","1">>}

\* the same with the link-local range forgotten
isPrivateNetworkNoLinkLocal(hostname) ==
    \/ StartsWith(hostname, <<"1","0",".">>)
    \/ StartsWith(hostname, <<"1","9","2",".","1","6","8",".">>)

\* the four patterns of privateRanges, each anchored at the start of the hostname
isPrivateNetwork(hostname) ==
    \/ StartsWith(hostname, <<"1","0",".">>)
    \/ /\ StartsWith(hostname, <<"1","7","2",".">>)
       /\ Len(hostname) >= 7
       /\ \/ hostname[5] = "1" /\ hostname[6] \in {"6","7","8","9"}
          \/ hostname[5] = "2" /\ hostname[6] \in Digits
          \/ hostname[5] = "3" /\ hostname[6] \in {"0","1"}
       /\ hostname[7] = "."
    \/ StartsWith(hostname, <<"1","9","2",".","1","6","8",".">>)
    \/ StartsWith(hostname, <<"1","6","9",".","2","5","4",".">>)

\* validateHostname: the rule that blocks the hostname, "none" when it passes
validateHostname(cfg, hostname) ==
    IF cfg.blockLocalhost /\ ToLowerCase(hostname) \in localhostVariants
    THEN "localhost_blocked"
    ELSE IF cfg.blockPrivateNetworks /\ isPrivateNetwork(hostname)
    THEN "private_network_blocked"
    ELSE "none"

isDomainAllowed(cfg, hostname) ==
    \E allowedDomain \in cfg.domainAllowlist :
        \/ hostname = allowedDomain
        \/ EndsWith(hostname, <<".">> \o allowedDomain)

\* validateSchemaUrl: the security rule that rejects the URL, "none" when it passes
HostnameRule(cfg, hostname) ==
    IF hostname = <<>> THEN "none" ELSE validateHostname(cfg, hostname)

SchemaUrlRule(cfg, text) ==
    Let(NewURL(text), LAMBDA parsed :
    IF ~parsed.ok THEN "url_validation"
    ELSE
    Let(parsed.v, LAMBDA parsedUrl :
    IF parsedUrl.protocol # sHttps \o <<":">>
       /\ (~cfg.allowHttp \/ parsedUrl.protocol # sHttp \o <<":">>)
    THEN "url_protocol"
    ELSE IF parsedUrl.protocol \in dangerousProtocols THEN "url_protocol"
    ELSE
    Let(HostnameRule(cfg, parsedUrl.hostname), LAMBDA hostRule :
    IF hostRule # "none" THEN hostRule
    ELSE IF cfg.domainAllowlist # {} /\ ~isDomainAllowed(cfg, parsedUrl.hostname)
    THEN "domain_allowlist"
    ELSE IF Includes(parsedUrl.pathname, <<".", ".">>) THEN "path_traversal"
    ELSE "none")))

\* validateSchemaUrl: returns nothing, or raises ITSSecurityError
validateSchemaUrl(cfg, text) ==
    Let(SchemaUrlRule(cfg, text), LAMBDA rule :
    IF rule = "none" THEN Ok(Undefined) ELSE SecurityError(rule))


(***************************************************************************)
(* Templates.  A content element is a record whose fields are JavaScript   *)
(* values; a field the document leaves out is Undefined.                   *)
(***************************************************************************)
TextElement(text) == [type |-> "text", text |-> text]
ConditionalElement(condition, content, else) ==
    [type |-> "conditional", condition |-> condition, content |-> content, else |-> else]
PlaceholderElement(instructionType, cfg) ==
    [type |-> "placeholder", instructionType |-> instructionType, config |-> cfg]

\* the attributes of the variables object that JSON does not show: the own
\* keys that are not enumerable, and what its prototype is
PlainObject == [nonEnumerable |-> {}, proto |-> "Object.prototype"]

\* Boolean(value)
Truthy(value) ==
    CASE value.t = "boolean" -> value.v
      [] value.t = "number" -> value.v # 0
      [] value.t = "string" -> value.v # <<>>
      [] value.t \in {"null", "undefined", "NaN"} -> FALSE
      [] OTHER -> TRUE

(***************************************************************************)
(* SecurityValidator: the deny-lists.  Each regular expression is modelled *)
(* by the strings it matches.                                              *)
(***************************************************************************)
WordChar == IdentChar
HexChar == Digits \cup {"a","b","c","d","e","f","A","B","C","D","E","F"}
LineTerminators == {"\n", "\r"}

\* p occurs in s at position i, letter case ignored (p is lower case)
MatchAtCI(s, i, p) ==
    /\ i >= 1
    /\ i + Len(p) - 1 <= Len(s)
    /\ \A k \in 1..Len(p) : ToLowerChar(s[i + k - 1]) = p[k]

\* /word\s*c/ with the i flag when ci
WordSpaceChar(s, word, c, ci) ==
    \E i \in 1..Len(s) :
        /\ IF ci THEN MatchAtCI(s, i, word) ELSE MatchAt(s, i, word)
        /\ LET j == RunEnd(s, i + Len(word), WhiteSpace)
           IN  j <= Len(s) /\ s[j] = c

sScriptOpen == <<"<","s","c","r","i","p","t">>
sScriptClose == <<"<","/","s","c","r","i","p","t",">">>
sJavascript == <<"j","a","v","a","s","c","r","i","p","t">>
sData == <<"d","a","t","a">>
sTextHtml == <<"t","e","x","t","/","h","t","m","l">>
sEval == <<"e","v","a","l">>
sFunction == <<"f","u","n","c","t","i","o","n">>
sSetTimeout == <<"s","e","t","t","i","m","e","o","u","t">>
sSetInterval == <<"s","e","t","i","n","t","e","r","v","a","l">>
sDocumentDot == <<"d","o","c","u","m","e","n","t",".">>
sWindowDot == <<"w","i","n","d","o","w",".">>

\* /<script[^>]*>.*?<\/script>/gi
MatchesScriptElement(s) ==
    \E i \in 1..Len(s) :
        /\ MatchAtCI(s, i, sScriptOpen)
        /\ \E j \in (i + 7)..Len(s) :
              /\ s[j] = ">"
              /\ \A k \in (i + 7)..(j - 1) : s[k] # ">"
              /\ \E m \in (j + 1)..Len(s) :
                    /\ MatchAtCI(s, m, sScriptClose)
                    /\ \A k \in (j + 1)..(m - 1) : s[k] \notin LineTerminators

\* /data\s*:\s*text\/html/gi
MatchesDataHtml(s) ==
    \E i \in 1..Len(s) :
        /\ MatchAtCI(s, i, sData)
        /\ LET j == RunEnd(s, i + 4, WhiteSpace)
           IN  /\ j <= Len(s)
               /\ s[j] = ":"
               /\ MatchAtCI(s, RunEnd(s, j + 1, WhiteSpace), sTextHtml)

\* /prefix\w+/gi
MatchesMemberOf(s, prefix) ==
    \E i \in 1..Len(s) :
        /\ MatchAtCI(s, i, prefix)
        /\ i + Len(prefix) <= Len(s)
        /\ s[i + Len(prefix)] \in WordChar

\* /lead[0-9a-fA-F]{n}/gi, lead given in lower case
MatchesEscape(s, lead, n) ==
    \E i \in 1..Len(s) :
        /\ MatchAtCI(s, i, lead)
        /\ i + Len(lead) + n - 1 <= Len(s)
        /\ \A k \in 0..(n - 1) : s[i + Len(lead) + k] \in HexChar

\* validateTextContent: some pattern of dangerousPatterns matches the text
TextIsMalicious(s) ==
    \/ MatchesScriptElement(s)
    \/ WordSpaceChar(s, sJavascript, ":", TRUE)
    \/ MatchesDataHtml(s)
    \/ WordSpaceChar(s, sEval, "(", TRUE)
    \/ WordSpaceChar(s, sFunction, "(", TRUE)
    \/ WordSpaceChar(s, sSetTimeout, "(", TRUE)
    \/ WordSpaceChar(s, sSetInterval, "(", TRUE)
    \/ MatchesMemberOf(s, sDocumentDot)
    \/ MatchesMemberOf(s, sWindowDot)
    \/ MatchesEscape(s, <<"\\", "x">>, 2)
    \/ MatchesEscape(s, <<"\\", "u">>, 4)
    \/ MatchesEscape(s, <<"%">>, 2)

\* String(value) as RegExp.prototype.test applies it to a value that is no string
sUndefined == <<"u","n","d","e","f","i","n","e","d">>
sNull == <<"n","u","l","l">>
sTrue == <<"t","r","u","e">>
sFalse == <<"f","a","l","s","e">>

\* validateTextContent(text)
validateTextContent(text) ==
    LET s == IF text.t = "string" THEN text.v
             ELSE IF text.t = "undefined" THEN sUndefined ELSE sNull
    IN  IF TextIsMalicious(s) THEN SecurityError("content_validation") ELSE Ok(Undefined)

\* /__\w+__/
MatchesDunder(s) ==
    \E i \in 1..Len(s) : \E j \in (i + 3)..Len(s) :
        /\ MatchAt(s, i, <<"_", "_">>)
        /\ MatchAt(s, j, <<"_", "_">>)
        /\ \A k \in (i + 2)..(j - 1) : s[k] \in WordChar

\* /word\s+/
WordSpaces(s, word) ==
    \E i \in 1..Len(s) :
        /\ MatchAt(s, i, word)
        /\ i + Len(word) <= Len(s)
        /\ s[i + Len(word)] \in WhiteSpace

\* validateConditionalExpression: some pattern of dangerousPatterns matches
ExpressionIsDangerous(s) ==
    \/ MatchesDunder(s)
    \/ WordSpaceChar(s, <<"e","x","e","c">>, "(", FALSE)
    \/ WordSpaceChar(s, sEval, "(", FALSE)
    \/ WordSpaces(s, <<"i","m","p","o","r","t">>)
    \/ WordSpaceChar(s, <<"o","p","e","n">>, "(", FALSE)
    \/ Includes(s, <<"s","u","b","p","r","o","c","e","s","s">>)
    \/ Includes(s, <<"o","s",".">>)
    \/ Includes(s, <<"s","y","s",".">>)
    \/ WordSpaceChar(s, <<"g","l","o","b","a","l","s">>, "(", FALSE)
    \/ WordSpaceChar(s, <<"l","o","c","a","l","s">>, "(", FALSE)
    \/ WordSpaceChar(s, <<"g","e","t","a","t","t","r">>, "(", FALSE)
    \/ WordSpaceChar(s, <<"s","e","t","a","t","t","r">>, "(", FALSE)
    \/ WordSpaceChar(s, <<"h","a","s","a","t","t","r">>, "(", FALSE)
    \/ WordSpaceChar(s, <<"d","e","l","a","t","t","r">>, "(", FALSE)

\* validateConditionalExpression(expression)
validateConditionalExpression(cfg, expression) ==
    IF expression.t # "string" THEN Err("TypeError")
    ELSE IF Len(expression.v) > cfg.maxExpressionLength
    THEN SecurityError("expression_length")
    ELSE IF ExpressionIsDangerous(expression.v) THEN SecurityError("expression_validation")
    ELSE Ok(Undefined)


(***************************************************************************)
(* JSON.stringify(template).length, which the size check reads.            *)
(***************************************************************************)
\* the sum of f over the finite set S
RECURSIVE SumOver(_, _)
SumOver(f, S) ==
    IF S = {} THEN 0
    ELSE LET x == CHOOSE y \in S : TRUE IN f[x] + SumOver(f, S \ {x})

\* the length of a string literal: the quotes, and two characters for each
\* character that JSON escapes
QuotedLength(s) ==
    2 + Len(s) + Cardinality({i \in DOMAIN s : s[i] \in {"\"", "\\", "\n", "\r", "\t"}})

\* the length of the members of an object or array, commas included
MembersLength(lengths, keys) ==
    SumOver(lengths, keys) + (IF keys = {} THEN 0 ELSE Cardinality(keys) - 1)

RECURSIVE JsonLength(_)
JsonLength(value) ==
    CASE value.t = "string" -> QuotedLength(value.v)
      [] value.t = "number" -> Len(NumberToString(value.v))
      [] value.t = "boolean" -> IF value.v THEN 4 ELSE 5
      [] value.t = "array" ->
            2 + MembersLength([i \in DOMAIN value.v |-> JsonLength(value.v[i])],
                              DOMAIN value.v)
      [] value.t = "object" ->
            2 + MembersLength([k \in DOMAIN value.v |->
                                  QuotedLength(k) + 1 + JsonLength(value.v[k])],
                              {k \in DOMAIN value.v : value.v[k].t \notin {"undefined", "function"}})
      [] OTHER -> 4

\* a member "key":value of an object, 0 when the value is undefined
MemberLength(keyLength, value, length) ==
    IF value.t = "undefined" THEN 0 ELSE keyLength + 3 + length

\* members joined by commas
JoinedLength(lengths) ==
    LET present == {i \in DOMAIN lengths : lengths[i] > 0}
    IN  2 + MembersLength(lengths, present)

RECURSIVE ContentJsonLength(_)
ElementJsonLength(element) ==
    IF element.type = "text"
    THEN JoinedLength(<<13, MemberLength(4, element.text, JsonLength(element.text))>>)
    ELSE IF element.type = "conditional"
    THEN JoinedLength(<<20,
            MemberLength(9, element.condition, JsonLength(element.condition)),
            MemberLength(7, element.content, ContentJsonLength(element.content)),
            MemberLength(4, element.else, ContentJsonLength(element.else))>>)
    ELSE JoinedLength(<<20,
            MemberLength(15, element.instructionType, JsonLength(element.instructionType)),
            MemberLength(6, element.config, JsonLength(element.config))>>)

ContentJsonLength(content) ==
    IF content.t # "array" THEN JsonLength(content)
    ELSE 2 + MembersLength([i \in DOMAIN content.v |-> ElementJsonLength(content.v[i])],
                           DOMAIN content.v)

\* the enumerable own properties of the variables object, as JSON shows them
EnumerableVariables(tmpl) ==
    IF tmpl.variables.t # "object" THEN tmpl.variables
    ELSE Obj([k \in DOMAIN tmpl.variables.v \ tmpl.variablesAttrs.nonEnumerable |->
                tmpl.variables.v[k]])

TemplateJsonLength(tmpl) ==
    JoinedLength(<<MemberLength(7, tmpl.version, JsonLength(tmpl.version)),
                   MemberLength(7, tmpl.extends, JsonLength(tmpl.extends)),
                   MemberLength(9, tmpl.variables, JsonLength(EnumerableVariables(tmpl))),
                   MemberLength(22, tmpl.customInstructionTypes,
                                JsonLength(tmpl.customInstructionTypes)),
                   MemberLength(7, tmpl.content, ContentJsonLength(tmpl.content)),
                   MemberLength(14, tmpl.compilerConfig, JsonLength(tmpl.compilerConfig))>>)

(***************************************************************************)
(* SecurityValidator.validateTemplate.                                     *)
(***************************************************************************)
\* the first failure of a sequence of checks made in order, Ok when none fails
FirstFailure(results) ==
    LET failed == {i \in DOMAIN results : ~results[i].ok}
    IN  IF failed = {} THEN Ok(Undefined)
        ELSE results[CHOOSE i \in failed : \A k \in failed : i <= k]

\* some failure of a set of checks whose order the model does not keep (the
\* members of an object); they raise the same kind of error
SomeFailure(results) ==
    LET failed == {k \in DOMAIN results : ~results[k].ok}
    IN  IF failed = {} THEN Ok(Undefined) ELSE results[CHOOSE k \in failed : TRUE]

\* validatePlaceholderConfig(config)
RECURSIVE validatePlaceholderConfig(_)
validatePlaceholderConfig(cfgValue) ==
    IF cfgValue.t \in {"undefined", "null"} THEN Err("TypeError")
    ELSE IF cfgValue.t \notin {"object", "array"} THEN Ok(Undefined)
    ELSE SomeFailure([k \in DOMAIN cfgValue.v |->
            IF cfgValue.v[k].t = "string" THEN validateTextContent(cfgValue.v[k])
            ELSE IF cfgValue.v[k].t \in {"object", "array"}
            THEN validatePlaceholderConfig(cfgValue.v[k])
            ELSE Ok(Undefined)])

\* validateContent(content, depth) and its loop body
RECURSIVE validateContent(_, _, _)
validateElement(cfg, element, depth) ==
    IF element.type = "text" THEN validateTextContent(element.text)
    ELSE IF element.type = "conditional" THEN
        FirstFailure(<<
            validateConditionalExpression(cfg, element.condition),
            IF element.content.t = "array"
            THEN validateContent(cfg, element.content.v, depth + 1) ELSE Ok(Undefined),
            IF element.else.t = "array"
            THEN validateContent(cfg, element.else.v, depth + 1) ELSE Ok(Undefined)>>)
    ELSE IF element.type = "placeholder" THEN validatePlaceholderConfig(element.config)
    ELSE Ok(Undefined)

validateContent(cfg, content, depth) ==
    IF depth > cfg.maxNestingDepth THEN SecurityError("nesting_depth")
    ELSE FirstFailure([i \in DOMAIN content |-> validateElement(cfg, content[i], depth)])

sCompile == <<"c","o","m","p","i","l","e">>
sOpen == <<"o","p","e","n">>
sThis == <<"t","h","i","s">>
sWindow == <<"w","i","n","d","o","w">>
sProcess == <<"p","r","o","c","e","s","s">>

\* the names of dangerousNames that are not Python builtins of the form __x__
dangerousNames ==
    {sProto, sConstructor, sPrototype, <<"e","x","e","c">>, sEval, sCompile, sOpen,
     <<"i","n","p","u","t">>, <<"g","l","o","b","a","l","s">>, <<"l","o","c","a","l","s">>,
     <<"v","a","r","s">>, <<"d","i","r">>, <<"g","e","t","a","t","t","r">>,
     <<"s","e","t","a","t","t","r">>, <<"h","a","s","a","t","t","r">>,
     <<"d","e","l","a","t","t","r">>, sFunction, sThis, sWindow,
     <<"d","o","c","u","m","e","n","t">>, <<"g","l","o","b","a","l">>, sProcess}

isDangerousVariableName(name) ==
    ToLowerCase(name) \in dangerousNames \/ StartsWith(name, <<"_", "_">>)

dangerousProps == {sProto, sConstructor, sPrototype}

\* the same with the keys taken from Object.entries, which lists the
\* enumerable properties only
DangerousKeyRuleEnumerableOnly(variables, attrs) ==
    LET keys == DOMAIN variables.v \ attrs.nonEnumerable
    IN  IF \E prop \in dangerousProps : prop \in keys THEN "dangerous_property"
        ELSE IF \E key \in keys : isDangerousVariableName(key) THEN "variable_name"
        ELSE "none"

\* the two key checks of validateVariables: hasOwnProperty for each of
\* dangerousProps, then isDangerousVariableName over getOwnPropertyNames
DangerousKeyRule(variables, attrs) ==
    IF \E prop \in dangerousProps : prop \in DOMAIN variables.v THEN "dangerous_property"
    ELSE IF \E key \in DOMAIN variables.v : isDangerousVariableName(key) THEN "variable_name"
    ELSE "none"

\* variables.__proto__ && variables.__proto__ !== Object.prototype
PrototypeModified(variables, attrs) ==
    IF sProto \in DOMAIN variables.v THEN Truthy(variables.v[sProto])
    ELSE attrs.proto = "other"

\* validateVariables(variables, path, depth)
RECURSIVE validateVariables(_, _, _, _)
validateVariableValue(cfg, value, depth) ==
    IF value.t = "string" THEN validateTextContent(value)
    ELSE IF value.t = "object" THEN validateVariables(cfg, value, PlainObject, depth + 1)
    ELSE IF value.t = "array" THEN
        IF Len(value.v) > 1000 THEN SecurityError("array_size")
        ELSE FirstFailure([i \in DOMAIN value.v |->
                IF value.v[i].t = "string" THEN validateTextContent(value.v[i])
                ELSE IF value.v[i].t \in {"object", "array"}
                THEN validateVariables(cfg, Obj(NumberToString(i - 1) :> value.v[i]),
                                       PlainObject, depth + 1)
                ELSE Ok(Undefined)])
    ELSE Ok(Undefined)

validateVariables(cfg, variables, attrs, depth) ==
    IF depth > cfg.maxNestingDepth THEN SecurityError("variable_nesting")
    ELSE IF PrototypeModified(variables, attrs) THEN SecurityError("prototype_pollution")
    ELSE IF DangerousKeyRule(variables, attrs) # "none"
    THEN SecurityError(DangerousKeyRule(variables, attrs))
    ELSE SomeFailure([k \in DOMAIN variables.v \ attrs.nonEnumerable |->
            validateVariableValue(cfg, variables.v[k], depth)])

\* validateTemplate(template): returns nothing, or raises
validateTemplate(cfg, tmpl) ==
    FirstFailure(<<
        IF TemplateJsonLength(tmpl) > cfg.maxTemplateSize
        THEN SecurityError("template_size") ELSE Ok(Undefined),
        IF tmpl.content.t = "array" /\ Len(tmpl.content.v) > cfg.maxContentElements
        THEN SecurityError("content_elements") ELSE Ok(Undefined),
        IF tmpl.content.t = "array"
        THEN validateContent(cfg, tmpl.content.v, 0) ELSE Ok(Undefined),
        IF tmpl.variables.t = "object"
        THEN validateVariables(cfg, tmpl.variables, tmpl.variablesAttrs, 0)
        ELSE Ok(Undefined),
        IF tmpl.extends.t = "array"
        THEN FirstFailure([i \in DOMAIN tmpl.extends.v |->
                validateSchemaUrl(cfg, tmpl.extends.v[i].v)])
        ELSE Ok(Undefined)>>)


(***************************************************************************)
(* Inputs of the model.                                                    *)
(***************************************************************************)
Unused == <<>>

\* all sequences over S of length at most n
SeqsUpTo(S, n) == UNION {[1..k -> S] : k \in 0..n}

sHello == <<"H","e","l","l","o">>

\* the elements an array of the model may hold
ArrayElements == {Num(7), Str(sHello), Bool(FALSE)}

Arrays == {Arr(a) : a \in SeqsUpTo(ArrayElements, MaxArrayLen)}

\* the text of the reference base[n]
IndexRef(base, n) == base \o <<"[">> \o NumberToString(n) \o <<"]">>

\* user.items
sUserItems == sUser \o <<".">> \o sItems

\* DEFAULT_SECURITY_CONFIG and DEVELOPMENT_SECURITY_CONFIG; an absent
\* domainAllowlist is the empty one
DEFAULT_SECURITY_CONFIG ==
    [allowHttp |-> FALSE, blockLocalhost |-> TRUE, blockPrivateNetworks |-> TRUE,
     domainAllowlist |-> {}, maxTemplateSize |-> 1048576, maxContentElements |-> 1000,
     maxNestingDepth |-> 10, maxExpressionLength |-> 500]

DEVELOPMENT_SECURITY_CONFIG ==
    [allowHttp |-> TRUE, blockLocalhost |-> FALSE, blockPrivateNetworks |-> FALSE,
     domainAllowlist |-> {}, maxTemplateSize |-> 5242880, maxContentElements |-> 2000,
     maxNestingDepth |-> 15, maxExpressionLength |-> 1000]

sVersion == <<"1",".","0",".","0">>

\* a template with the given content and variables and nothing else
Template(content, variables) ==
    [version |-> Str(sVersion), extends |-> Undefined, variables |-> variables,
     variablesAttrs |-> PlainObject, customInstructionTypes |-> Undefined,
     content |-> Arr(content), compilerConfig |-> Undefined]

\* the concatenation of a sequence of strings
RECURSIVE Concat(_)
Concat(pieces) ==
    IF pieces = <<>> THEN <<>>
    ELSE IF Len(pieces) = 1 THEN pieces[1]
    ELSE Concat(SubSeq(pieces, 1, Len(pieces) \div 2))
         \o Concat(SubSeq(pieces, (Len(pieces) \div 2) + 1, Len(pieces)))

(***************************************************************************)
(* SpecResolve: resolveVariableReference applied to an index reference.    *)
(***************************************************************************)
InitResolve ==
    /\ op = "resolve"
    /\ template = Unused
    /\ callerVars = Unused
    /\ \E a \in Arrays, n \in (0 - MaxIndex)..MaxIndex :
          \/ /\ varRef = IndexRef(sItems, n)
             /\ store = Obj(sItems :> a)
          \/ /\ varRef = IndexRef(sUserItems, n)
             /\ store = Obj(sUser :> Obj(sItems :> a))
    /\ config = Unused
    /\ url = Unused
    /\ result = Unused
    /\ cache = Unused
    /\ now = 0
    /\ calls = Unused
    /\ events = Unused
    /\ network = Unused
    /\ jsepBuild = Unused
    /\ stages = <<>>

Resolve ==
    /\ op = "resolve"
    /\ result' = resolveVariableReference(varRef, store)
    /\ op' = "resolved"
    /\ UNCHANGED <<template, callerVars, varRef, store, config, url, loaderVars, network, jsepBuild, stages>>

NextResolve == Resolve

SpecResolve == InitResolve /\ [][NextResolve]_vars

\* the array the reference of this behaviour indexes
IndexedArray ==
    IF sItems \in DOMAIN store.v THEN store.v[sItems].v ELSE store.v[sUser].v[sItems].v

\* the reference of this behaviour is base[n] for one of the two bases
RefHasIndex(n) == varRef \in {IndexRef(sItems, n), IndexRef(sUserItems, n)}

\* C3: an index step [n] over an array of length L yields element n when
\* 0 <= n < L, element L+n when -L <= n < 0, and raises a variable-resolution
\* error for every other n; it never yields undefined.
C3_IndexStepInRangeOrError ==
    op = "resolved" =>
        \A n \in (0 - MaxIndex - 1)..(MaxIndex + 1) :
            RefHasIndex(n) =>
                LET a == IndexedArray
                    L == Len(a)
                IN  /\ (0 <= n /\ n < L) => result = Ok(a[n + 1])
                    /\ (0 - L <= n /\ n < 0) => result = Ok(a[L + n + 1])
                    /\ (n >= L \/ n < 0 - L) => result = Err("ITSVariableError")
                    /\ result.v.t # "undefined" \/ ~result.ok

\* items[-1] resolved to the last element of a non-empty array
C3_Witness ==
    /\ op = "resolved"
    /\ RefHasIndex(-1)
    /\ Len(IndexedArray) = MaxArrayLen
    /\ result = Ok(IndexedArray[MaxArrayLen])


(***************************************************************************)
(* SpecUrl: validateSchemaUrl applied to URLs whose host is an IPv4        *)
(* address written in one of the forms the URL parser accepts, or a name.  *)
(***************************************************************************)
\* String(n) in octal with a leading 0, and in hexadecimal with a leading 0x
RECURSIVE ToBase(_, _)
ToBase(n, base) ==
    IF n < base THEN <<HexSeq[n + 1]>>
    ELSE ToBase(n \div base, base) \o <<HexSeq[(n % base) + 1]>>

FirstOctets == {10, 11, 127, 169, 172, 192}
SecondOctets == {0, 15, 16, 31, 32, 168, 254}
Addresses == {<<a, b, 0, 1>> : a \in FirstOctets, b \in SecondOctets}
HostForms == {"decimal", "octal", "hex", "short", "upper"}

\* the text of an IPv4 address in a form
HostText(addr, form) ==
    IF form = "decimal" THEN JoinWith([i \in 1..4 |-> NumberToString(addr[i])], <<".">>)
    ELSE IF form = "octal"
    THEN JoinWith([i \in 1..4 |-> <<"0">> \o ToBase(addr[i], 8)], <<".">>)
    ELSE IF form = "hex"
    THEN JoinWith([i \in 1..4 |-> <<"0", "x">> \o ToBase(addr[i], 16)], <<".">>)
    ELSE IF form = "upper"
    THEN JoinWith([i \in 1..4 |-> <<"0", "X">> \o ToBase(addr[i], 16)], <<".">>)
    ELSE JoinWith(<<NumberToString(addr[1]), NumberToString(addr[2]),
                    NumberToString(addr[3] * 256 + addr[4])>>, <<".">>)

NamedHosts == {sExampleCom, sLocalhost, <<"L","o","c","a","l","H","o","s","t">>,
               <<"[",":",":","1","]">>, <<"1","0",".","e","x","a","m","p","l","e",".","c","o","m">>}

UrlSchemes == {sHttp, sHttps, sFtp, <<"H","T","T","P">>}
UrlPaths == {<<"/">>, <<"/","s",".","j","s","o","n">>, <<"/","a","/",".",".","/","b">>,
             <<"/","a",".",".","b">>}

UrlText(scheme, host, path) == scheme \o <<":", "/", "/">> \o host \o path

\* private addresses written with no slashes, or with backslashes, after the scheme
UnusualPrivateUrls ==
    {sc \o <<":">> \o sl \o HostText(a, "decimal") \o <<"/">> :
        sc \in UrlSchemes, sl \in {<<>>, <<"/">>, <<"\\", "\\">>},
        a \in {<<10, 0, 0, 1>>, <<192, 168, 0, 1>>}}

\* hosts that address this machine: the four of localhostVariants as a URL
\* writes them, in other letter cases, and as numbers the parser normalises
sIpv6Loopback == <<"[",":",":","1","]">>
LoopbackHosts ==
    {sLocalhost, <<"L","O","C","A","L","H","O","S","T">>, <<"L","o","c","a","l","H","o","s","t">>, <<"1","2","7",".","0",".","0",".","1">>, <<"0",".","0",".","0",".","0">>, sIpv6Loopback,
     <<"1","2","7",".","1">>, <<"0">>, <<"0","x","7","F",".","0",".","0",".","1">>, <<"2","1","3","0","7","0","6","4","3","3">>}

LoopbackUrls ==
    {UrlText(sc, h, p) : sc \in UrlSchemes, h \in LoopbackHosts,
                         p \in {<<"/">>, <<"/","s",".","j","s","o","n">>}}

UrlInputs ==
    {UrlText(sc, HostText(a, f), <<"/">>) : sc \in UrlSchemes, a \in Addresses, f \in HostForms}
    \cup UnusualPrivateUrls
    \cup {UrlText(sc, h, p) : sc \in UrlSchemes, h \in NamedHosts, p \in UrlPaths}
    \cup {<<"s",".","j","s","o","n">>, sFile \o <<":", "/", "/", "/", "e", "t", "c">>}
    \cup LoopbackUrls

\* the security configurations of the model: the default one, the development
\* one, and those between them
Configs ==
    {[DEFAULT_SECURITY_CONFIG EXCEPT !.allowHttp = a, !.blockLocalhost = l,
                                     !.blockPrivateNetworks = p, !.domainAllowlist = d] :
        a \in BOOLEAN, l \in BOOLEAN, p \in BOOLEAN, d \in {{}, {sExampleCom}}}

InitUrl ==
    /\ op = "validateSchemaUrl"
    /\ template = Unused
    /\ callerVars = Unused
    /\ varRef = Unused
    /\ store = Unused
    /\ config \in Configs
    /\ url \in UrlInputs
    /\ result = Unused
    /\ cache = Unused
    /\ now = 0
    /\ calls = Unused
    /\ events = Unused
    /\ network = Unused
    /\ jsepBuild = Unused
    /\ stages = <<>>

ValidateSchemaUrl ==
    /\ op = "validateSchemaUrl"
    /\ result' = validateSchemaUrl(config, url)
    /\ op' = "validatedSchemaUrl"
    /\ UNCHANGED <<template, callerVars, varRef, store, config, url, loaderVars, network, jsepBuild, stages>>

NextUrl == ValidateSchemaUrl

SpecUrl == InitUrl /\ [][NextUrl]_vars

\* the address lies in 10/8, 172.16/12, 192.168/16 or 169.254/16
InPrivateRange(addr) ==
    \/ addr[1] = 10
    \/ addr[1] = 172 /\ addr[2] >= 16 /\ addr[2] <= 31
    \/ addr[1] = 192 /\ addr[2] = 168
    \/ addr[1] = 169 /\ addr[2] = 254

\* the URLs of the model whose host is an address of a private range, in any form
PrivateUrls ==
    {UrlText(sc, HostText(a, f), <<"/">>) :
        sc \in UrlSchemes, a \in {x \in Addresses : InPrivateRange(x)}, f \in HostForms}
    \cup UnusualPrivateUrls

\* C9: with private-network blocking enabled, validateSchemaUrl rejects every
\* URL whose host is an address of 10/8, 172.16/12, 192.168/16 or 169.254/16,
\* whatever the scheme and the allowHttp setting.
C9_PrivateRangesRejected ==
    (op = "validatedSchemaUrl" /\ config.blockPrivateNetworks /\ url \in PrivateUrls)
        => ~result.ok

\* http://169.254.0.1/ was rejected as a private network although HTTP is allowed
C9_Witness ==
    /\ op = "validatedSchemaUrl"
    /\ config.allowHttp
    /\ config.blockPrivateNetworks
    /\ url = UrlText(sHttp, HostText(<<169, 254, 0, 1>>, "decimal"), <<"/">>)
    /\ result = SecurityError("private_network_blocked")


(***************************************************************************)
(* SpecSecurity: validateTemplate applied to templates whose texts are     *)
(* built from pieces that hold script tags and javascript: URIs, and to    *)
(* templates whose variables object holds reserved keys.                   *)
(***************************************************************************)
MaxPieces == 3

sScriptTag == sScriptOpen \o <<">">>
sHi == <<"h","i"," ">>
sCountGt3 == sCount \o <<" ", ">", " ", "3">>

TextPieces ==
    {sScriptTag, <<"<","S","c","R","i","P","t",">">>, sScriptClose,
     sJavascript \o <<":">>, <<"J","a","v","a","S","c","r","i","p","t"," ",":">>,
     sHi, <<"\n">>, <<"<","b",">">>}

SecurityTexts == {Concat(p) : p \in SeqsUpTo(TextPieces, MaxPieces)}

\* the places of a template where a text element may sit
TextPlacements(text) ==
    {<<TextElement(Str(text))>>,
     <<TextElement(Str(sHi)),
       ConditionalElement(Str(sCountGt3), Arr(<<TextElement(Str(text))>>), Undefined)>>,
     <<ConditionalElement(Str(sCountGt3), Arr(<<TextElement(Str(sHi))>>),
                          Arr(<<TextElement(Str(text))>>))>>}

SecurityTextTemplates ==
    {Template(c, Undefined) : c \in UNION {TextPlacements(t) : t \in SecurityTexts}}

\* variables objects with own keys among the reserved ones, set in the ways
\* JavaScript allows: an enumerable own key (a computed key, JSON.parse), an
\* own key that is not enumerable (Object.defineProperty), a replaced
\* prototype (assignment to __proto__, a __proto__: member of a literal)
VariableKeys == {sTopic, sProto, sConstructor, sPrototype}
VariableValues == {Str(sHi), Num(0), Obj(<<>>)}

SecurityVariableTemplates ==
    {[Template(<<TextElement(Str(sHi))>>, Obj([k \in keys |-> val]))
        EXCEPT !.variablesAttrs = [nonEnumerable |-> hidden, proto |-> proto]] :
        keys \in SUBSET VariableKeys, val \in VariableValues,
        hidden \in SUBSET VariableKeys, proto \in {"Object.prototype", "other", "null"}}

InitSecurity ==
    /\ op = "validateTemplate"
    /\ template \in SecurityTextTemplates \cup
                    {t \in SecurityVariableTemplates :
                        t.variablesAttrs.nonEnumerable \subseteq DOMAIN t.variables.v}
    /\ callerVars = Unused
    /\ varRef = Unused
    /\ store = Unused
    /\ config \in {DEFAULT_SECURITY_CONFIG, DEVELOPMENT_SECURITY_CONFIG}
    /\ url = Unused
    /\ result = Unused
    /\ cache = Unused
    /\ now = 0
    /\ calls = Unused
    /\ events = Unused
    /\ network = Unused
    /\ jsepBuild = Unused
    /\ stages = <<>>

ValidateTemplate ==
    /\ op = "validateTemplate"
    /\ result' = validateTemplate(config, template)
    /\ op' = "validatedTemplate"
    /\ UNCHANGED <<template, callerVars, varRef, store, config, url, loaderVars, network, jsepBuild, stages>>

NextSecurity == ValidateTemplate

SpecSecurity == InitSecurity /\ [][NextSecurity]_vars

\* the texts of the text elements of a content sequence, at any depth
RECURSIVE TextsOf(_)
TextsOf(content) ==
    IF content.t # "array" THEN {}
    ELSE UNION {IF content.v[i].type = "text" THEN {content.v[i].text.v}
                ELSE IF content.v[i].type = "conditional"
                THEN TextsOf(content.v[i].content) \cup TextsOf(content.v[i].else)
                ELSE {} : i \in DOMAIN content.v}

\* s holds p at some position, in some letter case (p given in lower case)
IncludesCI(s, p) == \E i \in 1..Len(s) : MatchAtCI(s, i, p)

\* C5: validateTemplate rejects every template in which some text element
\* holds <script> or javascript: at any position and in any letter case.
C5_ScriptOrJavascriptRejected ==
    (/\ op = "validatedTemplate"
     /\ \E text \in TextsOf(template.content) :
           IncludesCI(text, sScriptTag) \/ IncludesCI(text, sJavascript \o <<":">>))
        => ~result.ok

\* C6: a template whose variables object has __proto__, constructor or
\* prototype among its own keys is rejected by validateTemplate, whether the
\* key is enumerable or not and whatever the prototype of the object is.
C6_ReservedOwnKeysRejected ==
    (/\ op = "validatedTemplate"
     /\ template.variables.t = "object"
     /\ DOMAIN template.variables.v \cap dangerousProps # {})
        => ~result.ok

\* a variables object with an ordinary prototype whose only reserved key,
\* constructor, is not enumerable and holds a falsy value, was rejected
C6_Witness ==
    /\ op = "validatedTemplate"
    /\ template.variables.t = "object"
    /\ DOMAIN template.variables.v = {sTopic, sConstructor}
    /\ template.variablesAttrs = [nonEnumerable |-> {sConstructor}, proto |-> "Object.prototype"]
    /\ result = SecurityError("dangerous_property")


(***************************************************************************)
(* SchemaLoader: loadSchema, its cache and the checks on a fetched schema. *)
(* A schema object is [id, value]: id names the fetch that produced the    *)
(* object (two fetches of one URL give two objects), value is its content. *)
(***************************************************************************)
cacheTTL == 3600000
maxSchemaSize == 10485760

sInstructionTypes ==
    <<"i","n","s","t","r","u","c","t","i","o","n","T","y","p","e","s">>
sTemplate == <<"t","e","m","p","l","a","t","e">>
sApplicationJson ==
    <<"a","p","p","l","i","c","a","t","i","o","n","/","j","s","o","n">>
sTextSlash == <<"t","e","x","t","/">>

\* URL.prototype.toString
UrlToString(parsedUrl) ==
    parsedUrl.protocol \o <<"/", "/">> \o parsedUrl.hostname \o parsedUrl.pathname

\* the path up to and including its last slash
DirName(path) ==
    SubSeq(path, 1, CHOOSE i \in 0..Len(path) :
                        /\ i = 0 \/ path[i] = "/"
                        /\ \A k \in (i + 1)..Len(path) : path[k] # "/")

\* new URL(text, base).toString() for a text that is no absolute URL
ResolveRelative(text, base) ==
    IF base.hostname = <<>> /\ base.protocol # <<"f","i","l","e",":">>
    THEN Err("TypeError")
    ELSE IF text = <<>> THEN Ok(UrlToString(base))
    ELSE IF StartsWith(text, <<"/", "/">>) THEN
        Let(NewURL(base.protocol \o text), LAMBDA parsed :
        IF parsed.ok THEN Ok(UrlToString(parsed.v)) ELSE parsed)
    ELSE IF text[1] = "/"
    THEN Ok(UrlToString([base EXCEPT !.pathname = NormalisePath(text)]))
    ELSE Ok(UrlToString([base EXCEPT
                !.pathname = NormalisePath(DirName(base.pathname) \o text)]))

\* isAbsoluteUrl(url)
isAbsoluteUrl(text) == NewURL(text).ok

\* resolveUrl(url, baseUrl): baseUrl is a string or undefined
resolveUrl(text, baseUrl) ==
    IF ~Truthy(baseUrl) \/ isAbsoluteUrl(text) THEN text
    ELSE
    Let(NewURL(baseUrl.v), LAMBDA base :
    IF ~base.ok THEN text
    ELSE
    Let(ResolveRelative(text, base.v), LAMBDA resolved :
    IF resolved.ok THEN resolved.v ELSE text))

\* the cache without its entry for key
RemoveEntry(entries, key) == [k \in DOMAIN entries \ {key} |-> entries[k]]

\* getFromCache(url) without its test of expiresAt
getFromCacheNoExpiry(entries, key, time) ==
    IF key \notin DOMAIN entries THEN [cache |-> entries, value |-> Null]
    ELSE [cache |-> entries, value |-> entries[key].schema]

\* getFromCache(url) at the time given: the cache it leaves, and what it returns
getFromCache(entries, key, time) ==
    IF key \notin DOMAIN entries THEN [cache |-> entries, value |-> Null]
    ELSE IF time > entries[key].expiresAt
    THEN [cache |-> RemoveEntry(entries, key), value |-> Null]
    ELSE [cache |-> entries, value |-> entries[key].schema]

\* a saveToCache that keeps the entry the URL already has
saveToCacheKeepFirst(entries, key, schema, time) ==
    IF key \in DOMAIN entries THEN entries
    ELSE [k \in DOMAIN entries \cup {key} |->
            IF k = key
            THEN [schema |-> schema, cachedAt |-> time, expiresAt |-> time + cacheTTL]
            ELSE entries[k]]

\* saveToCache(url, schema) at the time given: the cache it leaves
saveToCache(entries, key, schema, time) ==
    [k \in DOMAIN entries \cup {key} |->
        IF k = key
        THEN [schema |-> schema, cachedAt |-> time, expiresAt |-> time + cacheTTL]
        ELSE entries[k]]

\* validateInstructionType(typeName, typeDef)
validateInstructionType(typeDef) ==
    IF typeDef.t \notin {"object", "array"} THEN Err("Error")
    ELSE IF ~HasProperty(typeDef, sTemplate) THEN Err("Error")
    ELSE IF GetProperty(typeDef, sTemplate).t # "string" THEN Err("Error")
    ELSE Ok(Undefined)

\* validateSchemaStructure(schema)
validateSchemaStructure(schema) ==
    IF schema.t \notin {"object", "array"} THEN Err("Error")
    ELSE IF ~HasProperty(schema, sInstructionTypes) THEN Ok(Undefined)
    ELSE
    Let(GetProperty(schema, sInstructionTypes), LAMBDA instructionTypes :
    IF instructionTypes.t \notin {"object", "array"} THEN Err("Error")
    ELSE SomeFailure([k \in DOMAIN instructionTypes.v |->
                        validateInstructionType(instructionTypes.v[k])]))

\* what the network answers to a fetch: failure is "none", "network" (fetch
\* rejects) or "abort" (the timeout fired); json is what JSON.parse makes of
\* the body
Response(failure, ok, contentType, contentLength, textLength, json) ==
    [failure |-> failure, ok |-> ok, contentType |-> contentType,
     contentLength |-> contentLength, textLength |-> textLength, json |-> json]

\* the object that JSON.parse made during the fetch of the given call
SchemaObject(id, value) == [t |-> value.t, v |-> value.v, id |-> id]

\* loadFromUrl(url) of the given call, given the answer of the network: the
\* schema, or the error
loadFromUrl(call, response) ==
    IF response.failure # "none" THEN Err("Error")
    ELSE IF ~response.ok THEN Err("Error")
    ELSE
    Let(IF Truthy(response.contentType) THEN response.contentType.v ELSE <<>>,
        LAMBDA contentType :
    IF ~Includes(contentType, sApplicationJson) /\ ~Includes(contentType, sTextSlash)
    THEN Err("Error")
    ELSE IF /\ Truthy(response.contentLength)
            /\ ParseInt(response.contentLength.v) # NaN
            /\ ParseInt(response.contentLength.v).v > maxSchemaSize
    THEN Err("Error")
    ELSE IF response.textLength > maxSchemaSize THEN Err("Error")
    ELSE IF ~response.json.ok THEN Err("SyntaxError")
    ELSE
    Let(validateSchemaStructure(response.json.v), LAMBDA valid :
    IF valid.ok THEN Ok(SchemaObject(call, response.json.v)) ELSE valid))

\* a call of loadSchema: the resolved URL, how far it got ("fetching" while it
\* awaits loadFromUrl, then "returned" or "raised") and what it gave
Call(resolvedUrl, state, outcome) ==
    [url |-> resolvedUrl, state |-> state, result |-> outcome]

\* an entry of the log: kind is "rejected", "hit", "fetch", "save", "fail" or
\* "clear"; call is the loadSchema call (0 for clearCache), schema the id of
\* the schema object involved (0 when none)
Event(kind, call, key, time, schema) ==
    [kind |-> kind, call |-> call, url |-> key, time |-> time, schema |-> schema]

\* a loadSchema that consults the cache and fetches without asking the
\* security validator about the resolved URL
LoadSchemaUnvalidated(schemaUrl, baseUrl) ==
    /\ op = "loadSchema"
    /\ Len(calls) < MaxCalls
    /\ Let(resolveUrl(schemaUrl, baseUrl), LAMBDA resolvedUrl :
       Let(getFromCache(cache, resolvedUrl, now), LAMBDA cached :
       IF Truthy(cached.value) THEN
           /\ calls' = Append(calls, Call(resolvedUrl, "returned", Ok(cached.value)))
           /\ events' = Append(events,
                   Event("hit", Len(calls) + 1, resolvedUrl, now, cached.value.id))
           /\ cache' = cached.cache
       ELSE
           /\ calls' = Append(calls, Call(resolvedUrl, "fetching", Undefined))
           /\ events' = Append(events,
                   Event("fetch", Len(calls) + 1, resolvedUrl, now, 0))
           /\ cache' = cached.cache))
    /\ UNCHANGED <<op, template, callerVars, varRef, store, config, url, result, now,
                   network, jsepBuild, stages>>

\* loadSchema(schemaUrl, baseUrl) up to its await: the URL is resolved and
\* validated, the cache is consulted, and on a miss the fetch is issued
LoadSchema(schemaUrl, baseUrl) ==
    /\ op = "loadSchema"
    /\ Len(calls) < MaxCalls
    /\ Let(resolveUrl(schemaUrl, baseUrl), LAMBDA resolvedUrl :
       Let(validateSchemaUrl(config, resolvedUrl), LAMBDA checked :
       Let(getFromCache(cache, resolvedUrl, now), LAMBDA cached :
       IF ~checked.ok THEN
           /\ calls' = Append(calls, Call(resolvedUrl, "raised", checked))
           /\ events' = Append(events,
                   Event("rejected", Len(calls) + 1, resolvedUrl, now, 0))
           /\ cache' = cache
       ELSE IF Truthy(cached.value) THEN
           /\ calls' = Append(calls, Call(resolvedUrl, "returned", Ok(cached.value)))
           /\ events' = Append(events,
                   Event("hit", Len(calls) + 1, resolvedUrl, now, cached.value.id))
           /\ cache' = cached.cache
       ELSE
           /\ calls' = Append(calls, Call(resolvedUrl, "fetching", Undefined))
           /\ events' = Append(events,
                   Event("fetch", Len(calls) + 1, resolvedUrl, now, 0))
           /\ cache' = cached.cache)))
    /\ UNCHANGED <<op, template, callerVars, varRef, store, config, url, result, now,
                   network, jsepBuild, stages>>

\* a loadSchema that fetches once more when its first fetch has failed
FetchSettledRetrying(call, response) ==
    /\ op = "loadSchema"
    /\ call \in DOMAIN calls
    /\ calls[call].state = "fetching"
    /\ Let(loadFromUrl(call, response), LAMBDA loaded :
       IF loaded.ok THEN
           /\ cache' = saveToCache(cache, calls[call].url, loaded.v, now)
           /\ calls' = [calls EXCEPT ![call].state = "returned", ![call].result = loaded]
           /\ events' = Append(events, Event("save", call, calls[call].url, now, call))
       ELSE IF Cardinality({k \in DOMAIN events :
                               events[k].call = call /\ events[k].kind = "fetch"}) < 2
       THEN
           /\ cache' = cache
           /\ calls' = calls
           /\ events' = Append(events, Event("fetch", call, calls[call].url, now, 0))
       ELSE
           /\ cache' = cache
           /\ calls' = [calls EXCEPT ![call].state = "raised",
                                     ![call].result = SecurityError("schema_loading")]
           /\ events' = Append(events, Event("fail", call, calls[call].url, now, 0)))
    /\ UNCHANGED <<op, template, callerVars, varRef, store, config, url, result, now,
                   network, jsepBuild, stages>>

\* loadSchema after its await: the fetch of the call has settled with the
\* given answer; the schema is saved and returned, or the failure is wrapped
FetchSettled(call, response) ==
    /\ op = "loadSchema"
    /\ call \in DOMAIN calls
    /\ calls[call].state = "fetching"
    /\ Let(loadFromUrl(call, response), LAMBDA loaded :
       IF loaded.ok THEN
           /\ cache' = saveToCache(cache, calls[call].url, loaded.v, now)
           /\ calls' = [calls EXCEPT ![call].state = "returned", ![call].result = loaded]
           /\ events' = Append(events, Event("save", call, calls[call].url, now, call))
       ELSE
           /\ cache' = cache
           /\ calls' = [calls EXCEPT ![call].state = "raised",
                                     ![call].result = SecurityError("schema_loading")]
           /\ events' = Append(events, Event("fail", call, calls[call].url, now, 0)))
    /\ UNCHANGED <<op, template, callerVars, varRef, store, config, url, result, now,
                   network, jsepBuild, stages>>

\* clearCache()
ClearCache ==
    /\ op = "loadSchema"
    /\ Cardinality({i \in DOMAIN events : events[i].kind = "clear"}) < MaxClears
    /\ cache' = <<>>
    /\ events' = Append(events, Event("clear", 0, <<>>, now, 0))
    /\ UNCHANGED <<op, template, callerVars, varRef, store, config, url, result,
                   now, calls, network, jsepBuild, stages>>

\* the clock advances by a millisecond or by the lifetime of an entry
TickSteps == {1, cacheTTL}
TicksTaken == (now \div cacheTTL) + (now % cacheTTL)

Tick(step) ==
    /\ op = "loadSchema"
    /\ TicksTaken < MaxTicks
    /\ now' = now + step
    /\ UNCHANGED <<op, template, callerVars, varRef, store, config, url, result,
                   cache, calls, events, network, jsepBuild, stages>>


(***************************************************************************)
(* SpecCache: loadSchema calls, which may overlap, against one loader,     *)
(* with the clock advancing and clearCache called between their steps.     *)
(***************************************************************************)
sSchemaUrl == sHttps \o <<":", "/", "/">> \o sExampleCom \o <<"/", "s">>
sBaseUrl == sHttps \o <<":", "/", "/">> \o sExampleCom \o <<"/", "b">>
sPrivateUrl == sHttps \o <<":", "/", "/", "1", "0", ".", "0", ".", "0", ".", "1", "/", "s">>
sPrivateBaseUrl == sHttps \o <<":", "/", "/", "1", "0", ".", "0", ".", "0", ".", "1", "/", "b">>

\* the arguments of loadSchema: an absolute URL, a relative one that resolves
\* to the same URL, and one the SSRF guard rejects
LoadInputs ==
    {<<sSchemaUrl, Undefined>>, <<<<"s">>, Str(sBaseUrl)>>, <<sPrivateUrl, Undefined>>,
     <<<<"s">>, Str(sPrivateBaseUrl)>>}

\* a schema that defines one instruction type
GoodSchema ==
    Obj([k \in {sInstructionTypes} |->
            Obj([n \in {sTopic} |-> Obj([f \in {sTemplate} |-> Str(sHi)])])])

\* the answers of the network: a schema, and one answer for each way
\* loadFromUrl fails
GoodResponse == Response("none", TRUE, Str(sApplicationJson), Null, 100, Ok(GoodSchema))
Responses ==
    {GoodResponse,
     [GoodResponse EXCEPT !.failure = "network"],
     [GoodResponse EXCEPT !.failure = "abort"],
     [GoodResponse EXCEPT !.ok = FALSE],
     [GoodResponse EXCEPT !.contentType = Null],
     [GoodResponse EXCEPT !.contentLength = Str(<<"1","0","4","8","5","7","6","1">>)],
     [GoodResponse EXCEPT !.textLength = maxSchemaSize + 1],
     [GoodResponse EXCEPT !.json = Err("SyntaxError")],
     [GoodResponse EXCEPT !.json = Ok(Num(7))],
     [GoodResponse EXCEPT !.json = Ok(Obj([k \in {sInstructionTypes} |-> Str(sHi)]))],
     [GoodResponse EXCEPT !.json = Ok(Obj([k \in {sInstructionTypes} |->
            Obj([n \in {sTopic} |-> Obj([f \in {sTemplate} |-> Num(7)])])]))]}

InitCache ==
    /\ op = "loadSchema"
    /\ template = Unused
    /\ callerVars = Unused
    /\ varRef = Unused
    /\ store = Unused
    /\ config = DEFAULT_SECURITY_CONFIG
    /\ url = Unused
    /\ result = Unused
    /\ cache = <<>>
    /\ now = 0
    /\ calls = <<>>
    /\ events = <<>>
    /\ network = Unused
    /\ jsepBuild = Unused
    /\ stages = <<>>

NextCache ==
    \/ \E input \in LoadInputs : LoadSchema(input[1], input[2])
    \/ \E call \in 1..MaxCalls, response \in Responses : FetchSettled(call, response)
    \/ ClearCache
    \/ \E step \in TickSteps : Tick(step)

SpecCache == InitCache /\ [][NextCache]_vars

\* the cache lookups of the log: each accepted call makes one, a hit or a
\* miss that issues the fetch
Lookups == {j \in DOMAIN events : events[j].kind \in {"hit", "fetch"}}

\* the saves of the URL of entry j that precede it with no clearCache between
SavesBefore(j) ==
    {i \in 1..(j - 1) :
        /\ events[i].kind = "save"
        /\ events[i].url = events[j].url
        /\ \A k \in (i + 1)..(j - 1) : events[k].kind # "clear"}

LastSaveBefore(j) == CHOOSE i \in SavesBefore(j) : \A k \in SavesBefore(j) : k <= i

\* entry j is no later than cacheTTL after the last save of its URL
FreshAt(j) ==
    /\ SavesBefore(j) # {}
    /\ events[j].time <= events[LastSaveBefore(j)].time + cacheTTL

EventsOf(call) == {k \in DOMAIN events : events[k].call = call}

\* C7: a loadSchema(U) that looks up the cache no later than cacheTTL after
\* the last successful fetch of U was saved (clearCache not called since)
\* returns that fetch's schema object and issues no fetch; any other accepted
\* loadSchema(U), in particular the first one after the entry's lifetime,
\* issues exactly one fetch, and when the fetch succeeds its schema is cached
\* for cacheTTL from the time of the save.
C7_CachedUntilExpiryThenOneFetch ==
    op = "loadSchema" =>
        \A j \in Lookups :
            IF FreshAt(j)
            THEN /\ events[j].kind = "hit"
                 /\ events[j].schema = events[LastSaveBefore(j)].schema
                 /\ calls[events[j].call].result = Ok(calls[events[j].schema].result.v)
                 /\ EventsOf(events[j].call) = {j}
            ELSE /\ events[j].kind = "fetch"
                 /\ {k \in EventsOf(events[j].call) : events[k].kind = "fetch"} = {j}
                 /\ \A k \in EventsOf(events[j].call) :
                        (events[k].kind = "save" /\ k = Len(events)) =>
                            /\ events[k].url \in DOMAIN cache
                            /\ cache[events[k].url] =
                                   [schema |-> calls[events[j].call].result.v,
                                    cachedAt |-> events[k].time,
                                    expiresAt |-> events[k].time + cacheTTL]
                            /\ cache[events[k].url].schema.id = events[j].call

\* a schema saved at time 0 was served from the cache at time cacheTTL, and
\* the call made a millisecond later fetched it again and saved the new object
C7_Witness ==
    /\ op = "loadSchema"
    /\ Len(events) = 5
    /\ events[1] = Event("fetch", 1, sSchemaUrl, 0, 0)
    /\ events[2] = Event("save", 1, sSchemaUrl, 0, 1)
    /\ events[3] = Event("hit", 2, sSchemaUrl, cacheTTL, 1)
    /\ events[4] = Event("fetch", 3, sSchemaUrl, cacheTTL + 1, 0)
    /\ events[5] = Event("save", 3, sSchemaUrl, cacheTTL + 1, 3)
    /\ cache[sSchemaUrl].schema.id = 3

(***************************************************************************)
(* ITSCompiler.loadInstructionTypes.  The compiler awaits each loadSchema  *)
(* in turn; here a call of loadSchema runs to completion in one step, its  *)
(* fetch answered by the network of the behaviour.                         *)
(***************************************************************************)
sCustom == <<"c","u","s","t","o","m">>
sCustomInstructionTypes == <<"c","u","s","t","o","m","I","n","s","t","r","u","c","t","i","o","n","T","y","p","e","s">>
sUnknown == <<"u","n","k","n","o","w","n">>
sDescription == <<"d","e","s","c","r","i","p","t","i","o","n">>
sConfigSchema == <<"c","o","n","f","i","g","S","c","h","e","m","a">>

\* the state of the SchemaLoader: its cache, the calls of loadSchema made so
\* far and the log of what they did
Loader(entries, made, log) == [cache |-> entries, calls |-> made, events |-> log]

\* what fetch(url) gives: the answer of the network, a rejection for a URL
\* nothing answers
Fetch(net, resolvedUrl) ==
    IF resolvedUrl \in DOMAIN net THEN net[resolvedUrl]
    ELSE Response("network", FALSE, Null, Null, 0, Err("SyntaxError"))

\* loadSchema(schemaUrl, baseUrl) from its first line to its return or throw:
\* the loader it leaves and what it gave
loadSchema(loader, time, net, cfg, schemaUrl, baseUrl) ==
    Let(resolveUrl(schemaUrl, baseUrl), LAMBDA resolvedUrl :
    Let(Len(loader.calls) + 1, LAMBDA call :
    Let(validateSchemaUrl(cfg, resolvedUrl), LAMBDA checked :
    IF ~checked.ok THEN
        [loader |-> Loader(loader.cache,
                           Append(loader.calls, Call(resolvedUrl, "raised", checked)),
                           Append(loader.events,
                                  Event("rejected", call, resolvedUrl, time, 0))),
         result |-> checked]
    ELSE
    Let(getFromCache(loader.cache, resolvedUrl, time), LAMBDA cached :
    IF Truthy(cached.value) THEN
        [loader |-> Loader(cached.cache,
                           Append(loader.calls,
                                  Call(resolvedUrl, "returned", Ok(cached.value))),
                           Append(loader.events,
                                  Event("hit", call, resolvedUrl, time, cached.value.id))),
         result |-> Ok(cached.value)]
    ELSE
    Let(loadFromUrl(call, Fetch(net, resolvedUrl)), LAMBDA loaded :
    IF loaded.ok THEN
        [loader |-> Loader(saveToCache(cached.cache, resolvedUrl, loaded.v, time),
                           Append(loader.calls, Call(resolvedUrl, "returned", loaded)),
                           loader.events \o
                               <<Event("fetch", call, resolvedUrl, time, 0),
                                 Event("save", call, resolvedUrl, time, call)>>),
         result |-> loaded]
    ELSE
        [loader |-> Loader(cached.cache,
                           Append(loader.calls,
                                  Call(resolvedUrl, "raised",
                                       SecurityError("schema_loading"))),
                           loader.events \o
                               <<Event("fetch", call, resolvedUrl, time, 0),
                                 Event("fail", call, resolvedUrl, time, 0)>>),
         result |-> SecurityError("schema_loading")])))))

\* an entry of instructionTypes; a field that is not set is Undefined
InstructionTypeDefinition(typeTemplate, source, description, configSchema) ==
    [template |-> typeTemplate, source |-> source, description |-> description,
     configSchema |-> configSchema]

\* an entry of overrides; overrideType is OverrideType.SCHEMA_EXTENSION
\* ("schema") or OverrideType.CUSTOM ("custom")
TypeOverride(typeName, overrideSource, overriddenSource, overrideType) ==
    [typeName |-> typeName, overrideSource |-> overrideSource,
     overriddenSource |-> overriddenSource, overrideType |-> overrideType]

\* value.name for a value of any type but null and undefined
Member(value, name) ==
    IF value.t \in {"object", "array"} /\ HasProperty(value, name)
    THEN GetProperty(value, name)
    ELSE IF name \in ObjectPrototypeKeys THEN InheritedProperty(value.t, name)
    ELSE Undefined

\* the own enumerable properties that Object.entries lists, by key
EntriesOf(value) ==
    IF value.t = "object" THEN value.v
    ELSE IF value.t = "array"
    THEN [k \in {NumberToString(i - 1) : i \in DOMAIN value.v} |->
            value.v[CHOOSE i \in DOMAIN value.v : NumberToString(i - 1) = k]]
    ELSE <<>>

\* the keys in the order Object.entries lists them; the objects of the model
\* do not keep the order of insertion, so the order is a fixed one
Keys(f) == CHOOSE s \in [1..Cardinality(DOMAIN f) -> DOMAIN f] : Range(s) = DOMAIN f

\* instructionTypes[typeName].source || 'unknown', for a typeName that is
\* `in` instructionTypes
OverriddenSource(instructionTypes, typeName) ==
    IF typeName \in DOMAIN instructionTypes
    THEN IF Truthy(instructionTypes[typeName].source)
         THEN instructionTypes[typeName].source.v ELSE sUnknown
    ELSE sUnknown

\* the body of the two loops over Object.entries: the override record pushed
\* when typeName is `in` instructionTypes, then the assignment of the new
\* definition (type names of the model are never __proto__)
AddType(acc, typeName, typeDef, source, overrideSource, overrideType) ==
    IF typeDef.t \in {"null", "undefined"} THEN Err("TypeError")
    ELSE Ok(
    [instructionTypes |->
        (typeName :> InstructionTypeDefinition(Member(typeDef, sTemplate), Str(source),
                                               Member(typeDef, sDescription),
                                               Member(typeDef, sConfigSchema)))
            @@ acc.instructionTypes,
     overrides |->
        IF HasProperty(Obj(acc.instructionTypes), typeName)
        THEN Append(acc.overrides,
                    TypeOverride(typeName, overrideSource,
                                 OverriddenSource(acc.instructionTypes, typeName),
                                 overrideType))
        ELSE acc.overrides])

\* a loop over Object.entries(types), from its i-th entry
RECURSIVE AddTypes(_, _, _, _, _, _, _)
AddTypes(acc, types, names, i, source, overrideSource, overrideType) ==
    IF i > Len(names) THEN Ok(acc)
    ELSE
    Let(AddType(acc, names[i], types[names[i]], source, overrideSource, overrideType),
        LAMBDA added :
    IF ~added.ok THEN added
    ELSE AddTypes(added.v, types, names, i + 1, source, overrideSource, overrideType))

\* the loop over template.extends, from its i-th URL
RECURSIVE LoadExtended(_, _, _, _, _, _, _, _)
LoadExtended(loader, time, net, cfg, extends, i, baseUrl, acc) ==
    IF i > Len(extends) THEN [loader |-> loader, result |-> Ok(acc)]
    ELSE
    Let(loadSchema(loader, time, net, cfg, extends[i].v, baseUrl), LAMBDA loaded :
    IF ~loaded.result.ok THEN loaded
    ELSE
    Let(Member(loaded.result.v, sInstructionTypes), LAMBDA declared :
    Let(EntriesOf(IF Truthy(declared) THEN declared ELSE Obj(<<>>)), LAMBDA schemaTypes :
    Let(AddTypes(acc, schemaTypes, Keys(schemaTypes), 1,
                 extends[i].v, extends[i].v, "schema"), LAMBDA added :
    IF ~added.ok THEN [loader |-> loaded.loader, result |-> added]
    ELSE LoadExtended(loaded.loader, time, net, cfg, extends, i + 1, baseUrl,
                      added.v)))))

\* loadInstructionTypes(template, baseUrl): the loader it leaves, and
\* {instructionTypes, overrides} or the error raised
loadInstructionTypes(loader, time, net, cfg, tmpl, baseUrl) ==
    Let(LoadExtended(loader, time, net, cfg,
                     IF Truthy(tmpl.extends) THEN tmpl.extends.v ELSE <<>>, 1, baseUrl,
                     [instructionTypes |-> <<>>, overrides |-> <<>>]),
        LAMBDA extended :
    IF ~extended.result.ok THEN extended
    ELSE
    Let(EntriesOf(IF Truthy(tmpl.customInstructionTypes)
                  THEN tmpl.customInstructionTypes ELSE Obj(<<>>)),
        LAMBDA customTypes :
    [loader |-> extended.loader,
     result |-> AddTypes(extended.result.v, customTypes, Keys(customTypes), 1,
                         sCustom, sCustomInstructionTypes, "custom")]))

\* a call of loadInstructionTypes for the template, on a loader in any state
LoadInstructionTypes ==
    /\ op = "loadInstructionTypes"
    /\ Let(loadInstructionTypes(Loader(cache, calls, events), now, network, config,
                                template, Undefined), LAMBDA loaded :
          /\ result' = loaded.result
          /\ cache' = loaded.loader.cache
          /\ calls' = loaded.loader.calls
          /\ events' = loaded.loader.events)
    /\ op' = "loadedInstructionTypes"
    /\ UNCHANGED <<template, callerVars, varRef, store, config, url, now, network, jsepBuild, stages>>

(***************************************************************************)
(* SpecTypes: loadInstructionTypes for templates that extend up to two     *)
(* schemas and may define custom types, over type names that include       *)
(* names every JavaScript object inherits.                                 *)
(***************************************************************************)
sSchemaA == sHttps \o <<":","/","/","e","x","a","m","p","l","e",".","c","o","m","/","a">>
sSchemaB == sHttps \o <<":","/","/","e","x","a","m","p","l","e",".","c","o","m","/","b">>
sList == <<"l","i","s","t">>

TypeNames == {sList, sToString, sConstructor}

\* the instruction types a source defines: the names given, each with a
\* template that tells the source
TypesOf(names, label) ==
    Obj([n \in names |-> Obj(sTemplate :> Str(label \o <<":"," ","{","d","e","s","c","r","i","p","t","i","o","n","}">>))])

SchemaOf(names, label) == Obj(sInstructionTypes :> TypesOf(names, label))

SchemaResponses(label) ==
    {[GoodResponse EXCEPT !.json = Ok(SchemaOf(names, label))] : names \in SUBSET TypeNames}
        \cup {[GoodResponse EXCEPT !.failure = "network"]}

Networks ==
    {(sSchemaA :> a) @@ (sSchemaB :> b) :
        a \in SchemaResponses(<<"A">>), b \in SchemaResponses(<<"B">>)}

ExtendsChoices ==
    {Undefined} \cup {Arr(e) : e \in SeqsUpTo({Str(sSchemaA), Str(sSchemaB)}, 2)}

CustomChoices == {Undefined} \cup {TypesOf(names, <<"C">>) : names \in SUBSET TypeNames}

TypesTemplates ==
    {[Template(<<TextElement(Str(sHi))>>, Undefined)
        EXCEPT !.extends = e, !.customInstructionTypes = c] :
        e \in ExtendsChoices, c \in CustomChoices}

InitTypes ==
    /\ op = "loadInstructionTypes"
    /\ template \in TypesTemplates
    /\ callerVars = Unused
    /\ varRef = Unused
    /\ store = Unused
    /\ config = DEFAULT_SECURITY_CONFIG
    /\ url = Unused
    /\ result = Unused
    /\ cache = <<>>
    /\ now = 0
    /\ calls = <<>>
    /\ events = <<>>
    /\ network \in Networks
    /\ jsepBuild = Unused
    /\ stages = <<>>

NextTypes == LoadInstructionTypes

SpecTypes == InitTypes /\ [][NextTypes]_vars

\* the type names the schema at the URL defines
DefinedBy(schemaUrl) ==
    IF network[schemaUrl].failure = "none"
    THEN DOMAIN network[schemaUrl].json.v.v[sInstructionTypes].v ELSE {}

\* the override records for the type, in the order they were pushed
RECURSIVE OverridesOf(_, _)
OverridesOf(overrides, typeName) ==
    IF overrides = <<>> THEN <<>>
    ELSE (IF Head(overrides).typeName = typeName THEN <<Head(overrides)>> ELSE <<>>)
            \o OverridesOf(Tail(overrides), typeName)

\* C8: for a template that extends [A, B], with a type T that A, B and
\* customInstructionTypes all define, loadInstructionTypes gives the custom
\* definition for T and exactly two override records for T, in order: B
\* overriding A (kind schema), then customInstructionTypes overriding B
\* (kind custom).
C8_TwoOverridesCustomWins ==
    \A T \in TypeNames :
        (/\ op = "loadedInstructionTypes"
         /\ template.extends = Arr(<<Str(sSchemaA), Str(sSchemaB)>>)
         /\ T \in DefinedBy(sSchemaA) \cap DefinedBy(sSchemaB)
         /\ template.customInstructionTypes.t = "object"
         /\ T \in DOMAIN template.customInstructionTypes.v)
            => /\ result.ok
               /\ result.v.instructionTypes[T].source = Str(sCustom)
               /\ result.v.instructionTypes[T].template =
                      template.customInstructionTypes.v[T].v[sTemplate]
               /\ OverridesOf(result.v.overrides, T) =
                      <<TypeOverride(T, sSchemaB, sSchemaA, "schema"),
                        TypeOverride(T, sCustomInstructionTypes, sSchemaB, "custom")>>

(***************************************************************************)
(* jsep(condition): the expression parser ConditionalEvaluator imports.    *)
(* The grammar is that of jsep 1.x without plugins other than the ternary  *)
(* one; numbers are integers and string literals hold no escape, and an    *)
(* expression that needs more is answered by the error "OutsideModel".     *)
(* Releases of jsep differ in the node type they give to && and ||         *)
(* (LogicalExpression before 1.0, BinaryExpression since): build is that   *)
(* type.                                                                   *)
(***************************************************************************)
JsepSpaces == {" ", "\t", "\n", "\r"}
IdentifierStart == IdentStart \cup {"$"}
IdentifierPart == IdentifierStart \cup Digits

unary_ops == {"-", "!", "~", "+"}

\* binary_ops: the operators and their precedence
binary_ops ==
    (<<"|","|">> :> 1) @@ (<<"&","&">> :> 2) @@ (<<"|">> :> 3) @@ (<<"^">> :> 4) @@ (<<"&">> :> 5) @@
    (<<"=","=">> :> 6) @@ (<<"!","=">> :> 6) @@ (<<"=","=","=">> :> 6) @@ (<<"!","=","=">> :> 6) @@
    (<<"<">> :> 7) @@ (<<">">> :> 7) @@ (<<"<","=">> :> 7) @@ (<<">","=">> :> 7) @@
    (<<"<","<">> :> 8) @@ (<<">",">">> :> 8) @@ (<<">",">",">">> :> 8) @@
    (<<"+">> :> 9) @@ (<<"-">> :> 9) @@ (<<"*">> :> 10) @@ (<<"/">> :> 10) @@ (<<"%">> :> 10)

\* the nodes of the tree
NoNode == [type |-> "none"]
NullNode == [type |-> "null"]
Literal(value) == [type |-> "Literal", value |-> value]
Identifier(name) == [type |-> "Identifier", name |-> name]
ThisExpression == [type |-> "ThisExpression"]
MemberExpression(computed, object, property) ==
    [type |-> "MemberExpression", computed |-> computed, object |-> object,
     property |-> property]
CallExpression(callee, arguments) ==
    [type |-> "CallExpression", callee |-> callee, arguments |-> arguments]
UnaryExpression(operator, argument) ==
    [type |-> "UnaryExpression", operator |-> operator, argument |-> argument]
BinaryExpression(build, operator, left, right) ==
    [type |-> IF operator \in {<<"&","&">>, <<"|","|">>} THEN build ELSE "BinaryExpression",
     operator |-> operator, left |-> left, right |-> right]
ConditionalExpression(test, consequent, alternate) ==
    [type |-> "ConditionalExpression", test |-> test, consequent |-> consequent,
     alternate |-> alternate]
ArrayExpression(elements) == [type |-> "ArrayExpression", elements |-> elements]
SequenceExpression(expressions) ==
    [type |-> "SequenceExpression", expressions |-> expressions]
Compound(body) == [type |-> "Compound", body |-> body]

\* what a gobble method gives: the node (NoNode for false, a sequence of
\* nodes for the methods that return a list) and the index it leaves, or the
\* error it throws
Gobbled(node, index) == [ok |-> TRUE, node |-> node, index |-> index, err |-> "none"]
Thrown(err) == [ok |-> FALSE, node |-> NoNode, index |-> 0, err |-> err]

\* the character at the index, the empty string past the end
CodeAt(expr, i) == IF i <= Len(expr) THEN expr[i] ELSE ""

gobbleSpaces(expr, i) == RunEnd(expr, i, JsepSpaces)

\* gobbleBinaryOp: the longest operator at the index after spaces, <<>> if none
gobbleBinaryOp(expr, i) ==
    Let(gobbleSpaces(expr, i), LAMBDA j :
    Let({len \in 1..3 : /\ j + len - 1 <= Len(expr)
                        /\ SubSeq(expr, j, j + len - 1) \in DOMAIN binary_ops},
        LAMBDA lens :
    IF lens = {} THEN [op |-> <<>>, index |-> j]
    ELSE
    Let(CHOOSE len \in lens : \A k \in lens : k <= len, LAMBDA len :
    [op |-> SubSeq(expr, j, j + len - 1), index |-> j + len])))

\* gobbleNumericLiteral, for an index that holds a digit or a period
gobbleNumericLiteral(expr, i) ==
    Let(RunEnd(expr, i, Digits), LAMBDA j :
    IF CodeAt(expr, j) \in {".", "e", "E"} THEN Thrown("OutsideModel")
    ELSE IF CodeAt(expr, j) \in IdentifierStart THEN Thrown("Error")
    ELSE Gobbled(Literal(Num(DigitsValue(SubSeq(expr, i, j - 1), 10))), j))

\* gobbleStringLiteral, for an index that holds a quote
gobbleStringLiteral(expr, i) ==
    Let(RunEnd(expr, i + 1, Range(expr) \ {expr[i]}), LAMBDA close :
    IF close > Len(expr) THEN Thrown("Error")
    ELSE IF "\\" \in Range(SubSeq(expr, i + 1, close - 1)) THEN Thrown("OutsideModel")
    ELSE Gobbled(Literal(Str(SubSeq(expr, i + 1, close - 1))), close + 1))

\* gobbleIdentifier
gobbleIdentifier(expr, i) ==
    IF CodeAt(expr, i) \notin IdentifierStart THEN Thrown("Error")
    ELSE
    Let(RunEnd(expr, i + 1, IdentifierPart), LAMBDA j :
    Gobbled(Identifier(SubSeq(expr, i, j - 1)), j))

\* the literals true, false and null, this, and the other identifiers
NamedNode(name) ==
    IF name = sTrue THEN Literal(Bool(TRUE))
    ELSE IF name = sFalse THEN Literal(Bool(FALSE))
    ELSE IF name = sNull THEN Literal(Null)
    ELSE IF name = sThis THEN ThisExpression
    ELSE Identifier(name)

\* an entry of the operator stack of gobbleBinaryExpression
OperatorInfo(operator) == [value |-> operator, prec |-> binary_ops[operator]]

\* the stack after its top is reduced while the operator under the top binds
\* at least as tightly as prec
RECURSIVE Reduce(_, _, _)
Reduce(build, stack, prec) ==
    IF Len(stack) > 2 /\ prec <= stack[Len(stack) - 1].prec
    THEN Reduce(build,
                Append(SubSeq(stack, 1, Len(stack) - 3),
                       BinaryExpression(build, stack[Len(stack) - 1].value,
                                        stack[Len(stack) - 2], stack[Len(stack)])),
                prec)
    ELSE stack

RECURSIVE gobbleExpression(_, _, _)
RECURSIVE gobbleBinaryExpression(_, _, _)
RECURSIVE BinaryLoop(_, _, _, _)
RECURSIVE gobbleToken(_, _, _)
RECURSIVE gobbleTokenProperty(_, _, _, _)
RECURSIVE gobbleArguments(_, _, _, _, _, _)
RECURSIVE gobbleGroup(_, _, _)
RECURSIVE gobbleExpressions(_, _, _, _, _)

\* gobbleExpressions(untilICode) from the index, nodes being those found
gobbleExpressions(build, expr, i, until, nodes) ==
    IF i > Len(expr) THEN Gobbled(nodes, i)
    ELSE IF expr[i] \in {";", ","} THEN gobbleExpressions(build, expr, i + 1, until, nodes)
    ELSE
    Let(gobbleExpression(build, expr, i), LAMBDA found :
    IF ~found.ok THEN found
    ELSE IF found.node.type # "none"
    THEN gobbleExpressions(build, expr, found.index, until, Append(nodes, found.node))
    ELSE IF found.index > Len(expr) THEN Gobbled(nodes, found.index)
    ELSE IF expr[i] = until THEN Gobbled(nodes, found.index)
    ELSE Thrown("Error"))

\* gobbleGroup, for an index that holds (
gobbleGroup(build, expr, i) ==
    Let(gobbleExpressions(build, expr, i + 1, ")", <<>>), LAMBDA found :
    IF ~found.ok THEN found
    ELSE IF CodeAt(expr, found.index) # ")" THEN Thrown("Error")
    ELSE IF Len(found.node) = 1 THEN Gobbled(found.node[1], found.index + 1)
    ELSE IF Len(found.node) = 0 THEN Gobbled(NoNode, found.index + 1)
    ELSE Gobbled(SequenceExpression(found.node), found.index + 1))

\* gobbleArguments(termination) from the index, with the arguments and the
\* commas found so far
gobbleArguments(build, expr, i, termination, args, separators) ==
    Let(gobbleSpaces(expr, i), LAMBDA j :
    IF j > Len(expr) THEN Thrown("Error")
    ELSE IF expr[j] = termination THEN
        IF termination = ")" /\ separators > 0 /\ separators >= Len(args)
        THEN Thrown("Error") ELSE Gobbled(args, j + 1)
    ELSE IF expr[j] = "," THEN
        IF separators + 1 = Len(args)
        THEN gobbleArguments(build, expr, j + 1, termination, args, separators + 1)
        ELSE IF termination = ")" THEN Thrown("Error")
        ELSE gobbleArguments(build, expr, j + 1, termination,
                             args \o [k \in 1..(separators + 1 - Len(args)) |-> NullNode],
                             separators + 1)
    ELSE IF Len(args) # separators /\ separators # 0 THEN Thrown("Error")
    ELSE
    Let(gobbleExpression(build, expr, j), LAMBDA found :
    IF ~found.ok THEN found
    ELSE IF found.node.type \in {"none", "Compound"} THEN Thrown("Error")
    ELSE gobbleArguments(build, expr, found.index, termination,
                         Append(args, found.node), separators)))

\* gobbleTokenProperty(node): the member accesses and calls that follow
gobbleTokenProperty(build, expr, i, node) ==
    Let(gobbleSpaces(expr, i), LAMBDA j :
    IF CodeAt(expr, j) = "[" THEN
        Let(gobbleExpression(build, expr, j + 1), LAMBDA property :
        IF ~property.ok THEN property
        ELSE IF property.node.type = "none" THEN Thrown("Error")
        ELSE IF CodeAt(expr, gobbleSpaces(expr, property.index)) # "]" THEN Thrown("Error")
        ELSE gobbleTokenProperty(build, expr, gobbleSpaces(expr, property.index) + 1,
                                 MemberExpression(TRUE, node, property.node)))
    ELSE IF CodeAt(expr, j) = "(" THEN
        Let(gobbleArguments(build, expr, j + 1, ")", <<>>, 0), LAMBDA arguments :
        IF ~arguments.ok THEN arguments
        ELSE gobbleTokenProperty(build, expr, arguments.index,
                                 CallExpression(node, arguments.node)))
    ELSE IF CodeAt(expr, j) = "." THEN
        Let(gobbleIdentifier(expr, gobbleSpaces(expr, j + 1)), LAMBDA property :
        IF ~property.ok THEN property
        ELSE gobbleTokenProperty(build, expr, property.index,
                                 MemberExpression(FALSE, node, property.node)))
    ELSE Gobbled(node, j))

\* the node gobbleToken found, with what follows it
WithProperty(build, expr, found) ==
    IF ~found.ok \/ found.node.type = "none" THEN found
    ELSE gobbleTokenProperty(build, expr, found.index, found.node)

\* gobbleToken
gobbleToken(build, expr, i) ==
    Let(gobbleSpaces(expr, i), LAMBDA j :
    Let(CodeAt(expr, j), LAMBDA ch :
    IF ch \in Digits \cup {"."} THEN gobbleNumericLiteral(expr, j)
    ELSE IF ch \in {"'", "\""} THEN WithProperty(build, expr, gobbleStringLiteral(expr, j))
    ELSE IF ch = "[" THEN
        Let(gobbleArguments(build, expr, j + 1, "]", <<>>, 0), LAMBDA elements :
        IF ~elements.ok THEN elements
        ELSE gobbleTokenProperty(build, expr, elements.index,
                                 ArrayExpression(elements.node)))
    ELSE IF ch \in unary_ops THEN
        Let(gobbleToken(build, expr, j + 1), LAMBDA argument :
        IF ~argument.ok THEN argument
        ELSE IF argument.node.type = "none" THEN Thrown("Error")
        ELSE Gobbled(UnaryExpression(ch, argument.node), argument.index))
    ELSE IF ch \in IdentifierStart THEN
        Let(gobbleIdentifier(expr, j), LAMBDA identifier :
        gobbleTokenProperty(build, expr, identifier.index,
                            NamedNode(identifier.node.name)))
    ELSE IF ch = "(" THEN WithProperty(build, expr, gobbleGroup(build, expr, j))
    ELSE Gobbled(NoNode, j)))

\* the while loop of gobbleBinaryExpression: the next operator and operand
BinaryLoop(build, expr, i, stack) ==
    Let(gobbleBinaryOp(expr, i), LAMBDA biop :
    IF biop.op = <<>> THEN Gobbled(Reduce(build, stack, 0)[1], biop.index)
    ELSE
    Let(gobbleToken(build, expr, biop.index), LAMBDA operand :
    IF ~operand.ok THEN operand
    ELSE IF operand.node.type = "none" THEN Thrown("Error")
    ELSE BinaryLoop(build, expr, operand.index,
                    Reduce(build, stack, binary_ops[biop.op])
                        \o <<OperatorInfo(biop.op), operand.node>>)))

\* gobbleBinaryExpression
gobbleBinaryExpression(build, expr, i) ==
    Let(gobbleToken(build, expr, i), LAMBDA left :
    IF ~left.ok \/ left.node.type = "none" THEN left
    ELSE BinaryLoop(build, expr, left.index, <<left.node>>))

\* gobbleExpression, with the hook of the ternary plugin
gobbleExpression(build, expr, i) ==
    Let(gobbleBinaryExpression(build, expr, i), LAMBDA test :
    IF ~test.ok THEN test
    ELSE IF test.node.type = "none" \/ CodeAt(expr, gobbleSpaces(expr, test.index)) # "?"
    THEN Gobbled(test.node, gobbleSpaces(expr, test.index))
    ELSE
    Let(gobbleExpression(build, expr, gobbleSpaces(expr, test.index) + 1),
        LAMBDA consequent :
    IF ~consequent.ok THEN consequent
    ELSE IF consequent.node.type = "none" THEN Thrown("Error")
    ELSE IF CodeAt(expr, consequent.index) # ":" THEN Thrown("Error")
    ELSE
    Let(gobbleExpression(build, expr, consequent.index + 1), LAMBDA alternate :
    IF ~alternate.ok THEN alternate
    ELSE IF alternate.node.type = "none" THEN Thrown("Error")
    ELSE Gobbled(ConditionalExpression(test.node, consequent.node, alternate.node),
                 alternate.index))))

\* jsep(expr): the tree, or the error thrown
jsep(build, expr) ==
    Let(gobbleExpressions(build, expr, 1, "", <<>>), LAMBDA found :
    IF ~found.ok THEN Err(found.err)
    ELSE IF Len(found.node) = 1 THEN Ok(found.node[1])
    ELSE Ok(Compound(found.node)))

(***************************************************************************)
(* ConditionalEvaluator: the values of JavaScript and their comparisons.   *)
(* An array or object that was read from the variables carries the path it *)
(* was read at in ref (two reads of one path give the same object); one    *)
(* that an array literal made carries the empty path.  Numbers are         *)
(* integers.                                                               *)
(***************************************************************************)
\* the printable characters of ASCII in the order of their codes, from 32
\* (the grave accent, which no string of the model holds, is left empty)
AsciiSeq ==
    <<" ","!","\"","#","$","%","&","'","(",")","*","+",",","-",".","/">> \o DigitSeq \o
    <<":",";","<","=",">","?","@">> \o UpperSeq \o <<"[","\\","]","^","_","">> \o
    LowerSeq \o <<"{","|","}","~">>

\* c.charCodeAt(0)
CharCode(c) ==
    IF c = "\t" THEN 9 ELSE IF c = "\n" THEN 10 ELSE IF c = "\r" THEN 13
    ELSE 31 + (CHOOSE i \in DOMAIN AsciiSeq : AsciiSeq[i] = c)

\* the part of a dotted name after its last period
ShortName(name) ==
    SubSeq(name, 1 + (CHOOSE i \in 0..Len(name) :
                        /\ i = 0 \/ name[i] = "."
                        /\ \A k \in (i + 1)..Len(name) : name[k] # "."), Len(name))

\* String(value)
RECURSIVE StringOf(_)
StringOf(value) ==
    CASE value.t = "string" -> value.v
      [] value.t = "number" -> NumberToString(value.v)
      [] value.t = "NaN" -> <<"N","a","N">>
      [] value.t = "boolean" -> IF value.v THEN sTrue ELSE sFalse
      [] value.t = "null" -> sNull
      [] value.t = "undefined" -> sUndefined
      [] value.t = "array" ->
            JoinWith([i \in DOMAIN value.v |->
                        IF value.v[i].t \in {"null", "undefined"} THEN <<>>
                        ELSE StringOf(value.v[i])], <<",">>)
      [] value.t = "function" ->
            <<"f","u","n","c","t","i","o","n"," ">> \o ShortName(value.v) \o <<"(",")"," ","{"," ","[","n","a","t","i","v","e"," ","c","o","d","e","]"," ","}">>
      [] OTHER -> <<"[","o","b","j","e","c","t"," ","O","b","j","e","c","t","]">>

\* Number(s) for a string
StringToNumber(s) ==
    Let(Trim(s), LAMBDA t :
    Let(IF Len(t) >= 1 /\ t[1] \in {"-", "+"} THEN SubSeq(t, 2, Len(t)) ELSE t,
        LAMBDA digits :
    IF t = <<>> THEN Num(0)
    ELSE IF digits = <<>> \/ ~(Range(digits) \subseteq Digits) THEN NaN
    ELSE Num((IF t[1] = "-" THEN -1 ELSE 1) * DigitsValue(digits, 10))))

\* Number(value)
ToNumber(value) ==
    CASE value.t \in {"number", "NaN"} -> [t |-> value.t, v |-> value.v]
      [] value.t = "boolean" -> Num(IF value.v THEN 1 ELSE 0)
      [] value.t = "null" -> Num(0)
      [] value.t = "undefined" -> NaN
      [] OTHER -> StringToNumber(StringOf(value))

IsObject(value) == value.t \in {"array", "object", "function"}

\* the primitive value an operator reads from an object
ToPrimitive(value) == IF IsObject(value) THEN Str(StringOf(value)) ELSE value

\* the type of a value as the comparisons tell types apart
TypeOf(value) ==
    CASE value.t = "NaN" -> "number"
      [] IsObject(value) -> "object"
      [] OTHER -> value.t

\* the value, tagged with the path it was read at unless it carries one
Referring(value, path) ==
    IF value.t \in {"array", "object"} /\ "ref" \notin DOMAIN value
    THEN [t |-> value.t, v |-> value.v, ref |-> path]
    ELSE value

\* the path of the member of an object under the key
ChildRef(object, key) ==
    IF "ref" \in DOMAIN object /\ object.ref # <<>> THEN Append(object.ref, key) ELSE <<>>

\* two values that are objects are the same object
SameReference(left, right) ==
    IF left.t = "function" \/ right.t = "function"
    THEN left.t = right.t /\ left.v = right.v
    ELSE /\ "ref" \in DOMAIN left
         /\ "ref" \in DOMAIN right
         /\ left.ref # <<>>
         /\ left.ref = right.ref

\* left === right
StrictEquals(left, right) ==
    IF TypeOf(left) # TypeOf(right) THEN FALSE
    ELSE IF left.t \in {"undefined", "null"} THEN TRUE
    ELSE IF left.t = "NaN" \/ right.t = "NaN" THEN FALSE
    ELSE IF IsObject(left) THEN SameReference(left, right)
    ELSE left.v = right.v

\* left == right
RECURSIVE LooseEquals(_, _)
LooseEquals(left, right) ==
    IF TypeOf(left) = TypeOf(right) THEN StrictEquals(left, right)
    ELSE IF left.t \in {"undefined", "null"} \/ right.t \in {"undefined", "null"}
    THEN left.t \in {"undefined", "null"} /\ right.t \in {"undefined", "null"}
    ELSE IF TypeOf(left) = "number" /\ right.t = "string"
    THEN StrictEquals(left, ToNumber(right))
    ELSE IF left.t = "string" /\ TypeOf(right) = "number"
    THEN StrictEquals(ToNumber(left), right)
    ELSE IF left.t = "boolean" THEN LooseEquals(ToNumber(left), right)
    ELSE IF right.t = "boolean" THEN LooseEquals(left, ToNumber(right))
    ELSE IF IsObject(right) THEN LooseEquals(left, ToPrimitive(right))
    ELSE IF IsObject(left) THEN LooseEquals(ToPrimitive(left), right)
    ELSE FALSE

\* s comes before t in the order of strings, which is that of their codes
StringLess(s, t) ==
    \E k \in 1..(Len(s) + 1) :
        /\ k <= Len(t)
        /\ \A i \in 1..(k - 1) : s[i] = t[i]
        /\ k > Len(s) \/ CharCode(s[k]) < CharCode(t[k])

\* left < right for primitive values: "true", "false", or "undefined" when
\* one of them is NaN
PrimitiveLess(left, right) ==
    IF left.t = "string" /\ right.t = "string"
    THEN IF StringLess(left.v, right.v) THEN "true" ELSE "false"
    ELSE IF ToNumber(left).t = "NaN" \/ ToNumber(right).t = "NaN" THEN "undefined"
    ELSE IF ToNumber(left).v < ToNumber(right).v THEN "true" ELSE "false"

LessThan(left, right) == PrimitiveLess(ToPrimitive(left), ToPrimitive(right))

\* the key a value names when it is used as a property
PropertyKey(property) == StringOf(property)

(***************************************************************************)
(* ConditionalEvaluator: evaluateASTNode and validatePropertyAccess.       *)
(***************************************************************************)
dangerousProperties ==
    {sConstructor, sPrototype, sProto, <<"_","_","d","e","f","i","n","e","G","e","t","t","e","r","_","_">>, <<"_","_","d","e","f","i","n","e","S","e","t","t","e","r","_","_">>,
     <<"_","_","l","o","o","k","u","p","G","e","t","t","e","r","_","_">>, <<"_","_","l","o","o","k","u","p","S","e","t","t","e","r","_","_">>}

\* validatePropertyAccess(object, property)
validatePropertyAccess(object, property) ==
    IF property.t = "string" /\ property.v \in dangerousProperties
    THEN SecurityError("property_access")
    ELSE IF object.t = "function" THEN SecurityError("function_property_access")
    ELSE IF object.t = "array" /\ property.t = "number" THEN
        IF property.v < 0 THEN
            LET actualIndex == Len(object.v) + property.v
            IN  IF actualIndex < 0 \/ actualIndex >= Len(object.v)
                THEN Err("Error") ELSE Ok(Undefined)
        ELSE IF property.v >= Len(object.v) THEN Err("Error")
        ELSE Ok(Undefined)
    ELSE Ok(Undefined)

\* object[property], for an object that is neither null nor undefined
GetMember(object, property) ==
    Let(PropertyKey(property), LAMBDA key :
    IF /\ object.t \in {"array", "string"}
       /\ \E i \in DOMAIN object.v : NumberToString(i - 1) = key
    THEN Let(CHOOSE i \in DOMAIN object.v : NumberToString(i - 1) = key, LAMBDA i :
         IF object.t = "string" THEN Str(<<object.v[i]>>)
         ELSE Referring(object.v[i], ChildRef(object, key)))
    ELSE IF object.t \in {"array", "string"} /\ key = sLength THEN Num(Len(object.v))
    ELSE IF object.t = "object" /\ key \in DOMAIN object.v
    THEN Referring(object.v[key], ChildRef(object, key))
    ELSE IF key \in ObjectPrototypeKeys THEN InheritedProperty(object.t, key)
    ELSE Undefined)

\* the MemberExpression case once object and property are evaluated
MemberValue(object, property) ==
    IF property.t = "string" /\ property.v = sLength /\ object.t \in {"array", "string"}
    THEN Ok(Num(Len(object.v)))
    ELSE
    Let(validatePropertyAccess(object, property), LAMBDA valid :
    IF ~valid.ok THEN valid ELSE Ok(GetMember(object, property)))

\* the switch of the BinaryExpression case once both operands are evaluated
BinaryValue(operator, left, right) ==
    CASE operator = <<"=","=">> -> Ok(Bool(LooseEquals(left, right)))
      [] operator = <<"=","=","=">> -> Ok(Bool(StrictEquals(left, right)))
      [] operator = <<"!","=">> -> Ok(Bool(~LooseEquals(left, right)))
      [] operator = <<"!","=","=">> -> Ok(Bool(~StrictEquals(left, right)))
      [] operator = <<"<">> -> Ok(Bool(LessThan(left, right) = "true"))
      [] operator = <<"<","=">> -> Ok(Bool(LessThan(right, left) = "false"))
      [] operator = <<">">> -> Ok(Bool(LessThan(right, left) = "true"))
      [] operator = <<">","=">> -> Ok(Bool(LessThan(left, right) = "false"))
      [] operator = <<"&","&">> -> Ok(IF Truthy(left) THEN right ELSE left)
      [] operator = <<"|","|">> -> Ok(IF Truthy(left) THEN left ELSE right)
      [] OTHER -> Err("Error")

\* the switch of the UnaryExpression case once the argument is evaluated
UnaryValue(operator, argument) ==
    CASE operator = "!" -> Ok(Bool(~Truthy(argument)))
      [] operator = "-" ->
            IF ToNumber(argument).t = "NaN" THEN Ok(NaN)
            ELSE Ok(Num(0 - ToNumber(argument).v))
      [] operator = "+" -> Ok(ToNumber(argument))
      [] OTHER -> Err("Error")

\* evaluateASTNode(node, variables): the value, or the error thrown
RECURSIVE evaluateASTNode(_, _)
RECURSIVE EvaluateElements(_, _, _, _)

\* elements.map(element => evaluateASTNode(element, variables)), from the
\* i-th element
EvaluateElements(elements, i, variables, values) ==
    IF i > Len(elements) THEN Ok([t |-> "array", v |-> values, ref |-> <<>>])
    ELSE
    Let(evaluateASTNode(elements[i], variables), LAMBDA value :
    IF ~value.ok THEN value
    ELSE EvaluateElements(elements, i + 1, variables, Append(values, value.v)))

evaluateASTNode(node, variables) ==
    CASE node.type = "Literal" -> Ok(node.value)
      [] node.type = "Identifier" ->
            IF ~HasProperty(variables, node.name) THEN Err("Error")
            ELSE Ok(Referring(GetProperty(variables, node.name), <<node.name>>))
      [] node.type = "MemberExpression" ->
            Let(evaluateASTNode(node.object, variables), LAMBDA object :
            IF ~object.ok THEN object
            ELSE IF object.v.t \in {"null", "undefined"} THEN Err("Error")
            ELSE
            Let(IF node.computed THEN evaluateASTNode(node.property, variables)
                ELSE Ok(Str(node.property.name)), LAMBDA property :
            IF ~property.ok THEN property ELSE MemberValue(object.v, property.v)))
      [] node.type = "BinaryExpression" ->
            Let(evaluateASTNode(node.left, variables), LAMBDA left :
            IF ~left.ok THEN left
            ELSE
            Let(evaluateASTNode(node.right, variables), LAMBDA right :
            IF ~right.ok THEN right
            ELSE BinaryValue(node.operator, left.v, right.v)))
      [] node.type = "LogicalExpression" ->
            Let(evaluateASTNode(node.left, variables), LAMBDA leftVal :
            IF ~leftVal.ok THEN leftVal
            ELSE IF node.operator \notin {<<"&","&">>, <<"|","|">>, <<"a","n","d">>, <<"o","r">>} THEN Err("Error")
            ELSE IF Truthy(leftVal.v) = (node.operator \in {<<"&","&">>, <<"a","n","d">>})
            THEN evaluateASTNode(node.right, variables)
            ELSE leftVal)
      [] node.type = "UnaryExpression" ->
            IF node.operator \notin {"!", "-", "+"} THEN Err("Error")
            ELSE
            Let(evaluateASTNode(node.argument, variables), LAMBDA argument :
            IF ~argument.ok THEN argument
            ELSE UnaryValue(node.operator, argument.v))
      [] node.type = "ArrayExpression" ->
            EvaluateElements(node.elements, 1, variables, <<>>)
      [] OTHER -> Err("Error")

(***************************************************************************)
(* ConditionalEvaluator: evaluateCondition and evaluateContent.            *)
(***************************************************************************)
\* a word boundary lies before position i of s, which holds a word character
BoundaryBefore(s, i) == i = 1 \/ s[i - 1] \notin WordChar

\* /\bword\s*\(/i
CallOf(s, word) ==
    \E i \in 1..Len(s) :
        /\ MatchAtCI(s, i, word)
        /\ BoundaryBefore(s, i)
        /\ CodeAt(s, RunEnd(s, i + Len(word), WhiteSpace \cup {"\r"})) = "("

\* /\bword\b/i
WholeWord(s, word) ==
    \E i \in 1..Len(s) :
        /\ MatchAtCI(s, i, word)
        /\ BoundaryBefore(s, i)
        /\ CodeAt(s, i + Len(word)) \notin WordChar

\* /\.\s*word\s*\./
MemberBetweenDots(s, word) ==
    \E i \in 1..Len(s) :
        /\ s[i] = "."
        /\ MatchAt(s, RunEnd(s, i + 1, WhiteSpace \cup {"\r"}), word)
        /\ CodeAt(s, RunEnd(s, RunEnd(s, i + 1, WhiteSpace \cup {"\r"}) + Len(word),
                            WhiteSpace \cup {"\r"})) = "."

\* some pattern of dangerousPatterns matches the condition
ConditionIsDangerous(s) ==
    \/ \E word \in {sEval, <<"e","x","e","c">>, sFunction, sSetTimeout, sSetInterval} : CallOf(s, word)
    \/ \E word \in {<<"i","m","p","o","r","t">>, <<"r","e","q","u","i","r","e">>, <<"g","l","o","b","a","l">>, sWindow, <<"d","o","c","u","m","e","n","t">>, sProcess} :
          WholeWord(s, word)
    \/ MatchesDunder(s)
    \/ MemberBetweenDots(s, sConstructor)
    \/ MemberBetweenDots(s, sPrototype)
    \/ MemberBetweenDots(s, sProto)

\* validateConditionSecurity(condition)
validateConditionSecurity(maxExpressionLength, condition) ==
    IF Len(condition) > maxExpressionLength THEN SecurityError("expression_length")
    ELSE IF ConditionIsDangerous(condition) THEN SecurityError("expression_validation")
    ELSE Ok(Undefined)

\* evaluateCondition(condition, variables): the boolean, or the error thrown
evaluateCondition(build, maxExpressionLength, condition, variables) ==
    Let(validateConditionSecurity(maxExpressionLength, condition), LAMBDA secure :
    IF ~secure.ok THEN secure
    ELSE
    Let(jsep(build, condition), LAMBDA ast :
    IF ~ast.ok THEN
        IF ast.err = "OutsideModel" THEN ast ELSE SecurityError("conditional_evaluation")
    ELSE
    Let(evaluateASTNode(ast.v, variables), LAMBDA value :
    IF ~value.ok THEN SecurityError("conditional_evaluation")
    ELSE Ok(Bool(Truthy(value.v))))))

\* the branch of a conditional element chosen without regard to the
\* condition: always its content
BranchOfContentAlways(element, conditionResult) == element.content

\* the array of a conditional element that evaluateContent descends into:
\* content when the condition holds, else when it does not and else is
\* truthy, and nothing otherwise
BranchOf(element, conditionResult) ==
    IF conditionResult THEN element.content
    ELSE IF Truthy(element.else) THEN element.else
    ELSE Arr(<<>>)

\* an evaluateContent that pushes the elements of the chosen branch as they
\* are, without evaluating the conditionals among them
RECURSIVE evaluateContentShallow(_, _, _, _)
evaluateContentShallow(build, maxExpressionLength, content, variables) ==
    IF content = <<>> THEN Ok(<<>>)
    ELSE IF Head(content).type # "conditional" THEN
        Let(evaluateContentShallow(build, maxExpressionLength, Tail(content), variables),
            LAMBDA rest :
        IF ~rest.ok THEN rest ELSE Ok(<<Head(content)>> \o rest.v))
    ELSE IF Head(content).condition.t # "string" THEN Err("OutsideModel")
    ELSE
    Let(evaluateCondition(build, maxExpressionLength, Head(content).condition.v,
                          variables), LAMBDA conditionResult :
    IF ~conditionResult.ok THEN conditionResult
    ELSE
    Let(BranchOf(Head(content), conditionResult.v.v), LAMBDA branch :
    IF branch.t # "array" THEN Err("TypeError")
    ELSE
    Let(evaluateContentShallow(build, maxExpressionLength, Tail(content), variables),
        LAMBDA rest :
    IF ~rest.ok THEN rest ELSE Ok(branch.v \o rest.v))))

\* evaluateContent(content, variables): the elements kept, or the error
\* thrown; an array where the loop expects one is all the model covers
RECURSIVE evaluateContent(_, _, _, _)
evaluateContent(build, maxExpressionLength, content, variables) ==
    IF content = <<>> THEN Ok(<<>>)
    ELSE IF Head(content).type # "conditional" THEN
        Let(evaluateContent(build, maxExpressionLength, Tail(content), variables),
            LAMBDA rest :
        IF ~rest.ok THEN rest ELSE Ok(<<Head(content)>> \o rest.v))
    ELSE IF Head(content).condition.t # "string" THEN Err("OutsideModel")
    ELSE
    Let(evaluateCondition(build, maxExpressionLength, Head(content).condition.v,
                          variables), LAMBDA conditionResult :
    IF ~conditionResult.ok THEN conditionResult
    ELSE
    Let(BranchOf(Head(content), conditionResult.v.v), LAMBDA branch :
    IF branch.t # "array" THEN Err("TypeError")
    ELSE
    Let(evaluateContent(build, maxExpressionLength, branch.v, variables),
        LAMBDA nestedContent :
    IF ~nestedContent.ok THEN nestedContent
    ELSE
    Let(evaluateContent(build, maxExpressionLength, Tail(content), variables),
        LAMBDA rest :
    IF ~rest.ok THEN rest ELSE Ok(nestedContent.v \o rest.v)))))

\* a call of evaluateContent on the content of the template
EvaluateContent ==
    /\ op = "evaluateContent"
    /\ result' = evaluateContent(jsepBuild, config.maxExpressionLength,
                                 template.content.v, store)
    /\ op' = "evaluatedContent"
    /\ UNCHANGED <<template, callerVars, varRef, store, config, url, loaderVars, network,
                   jsepBuild, stages>>

(***************************************************************************)
(* Conditional evaluation: evaluateContent on content whose conditions     *)
(* read the variables, under either build of jsep.  Every text of a        *)
(* content is different, so a kept element tells the branch it came from.  *)
(***************************************************************************)
sShowExtraIsTrue == <<"s","h","o","w","E","x","t","r","a"," ","=","="," ","t","r","u","e">>

Conditions ==
    {sCountGt3, <<"c","o","u","n","t",">","3">>, sShowExtraIsTrue, <<"!","s","h","o","w","E","x","t","r","a">>, <<"c","o","u","n","t"," ",">"," ","3"," ","&","&"," ","s","h","o","w","E","x","t","r","a">>,
     <<"s","h","o","w","E","x","t","r","a"," ","|","|"," ","m","i","s","s","i","n","g">>, <<"m","i","s","s","i","n","g">>, <<"c","o","u","n","t"," ",">">>, <<"i","t","e","m","s",".","l","e","n","g","t","h">>,
     <<"i","t","e","m","s","[","0","]"," ","=","="," ","'","h","i","'">>, <<"i","t","e","m","s",".","c","o","n","s","t","r","u","c","t","o","r">>, <<"c","o","u","n","t"," ","=","="," ","'","5","'">>}

NestedConditions == {sShowExtraIsTrue, <<"m","i","s","s","i","n","g">>}

ConditionStores ==
    {Obj((sCount :> Num(count)) @@ (<<"s","h","o","w","E","x","t","r","a">> :> Bool(showExtra)) @@
         (sItems :> items)) :
        count \in {2, 5}, showExtra \in BOOLEAN, items \in {Arr(<<>>), Arr(<<Str(<<"h","i">>)>>)}}

Marked(mark) == TextElement(Str(mark))

ConditionalContents ==
    UNION {
        {<<Marked(<<"b","e","f","o","r","e">>),
           ConditionalElement(Str(c), Arr(<<Marked(<<"k","e","p","t">>)>>), Undefined),
           Marked(<<"a","f","t","e","r">>)>>,
         <<ConditionalElement(Str(c), Arr(<<Marked(<<"k","e","p","t">>), Marked(<<"k","e","p","t"," ","t","o","o">>)>>),
                              Arr(<<Marked(<<"o","t","h","e","r">>)>>))>>,
         <<ConditionalElement(Str(c), Arr(<<Marked(<<"k","e","p","t">>)>>), Arr(<<>>)),
           PlaceholderElement(Str(sList), Obj(<<"d","e","s","c","r","i","p","t","i","o","n">> :> Str(<<"t","h","i","n","g","s">>)))>>}
        \cup
        {<<ConditionalElement(Str(c),
              Arr(<<Marked(<<"k","e","p","t">>),
                    ConditionalElement(Str(n), Arr(<<Marked(<<"i","n","n","e","r"," ","k","e","p","t">>)>>),
                                       Arr(<<Marked(<<"i","n","n","e","r"," ","o","t","h","e","r">>)>>))>>),
              Arr(<<ConditionalElement(Str(n), Arr(<<Marked(<<"o","t","h","e","r"," ","k","e","p","t">>)>>), Undefined),
                    Marked(<<"o","t","h","e","r">>)>>))>> : n \in NestedConditions}
        : c \in Conditions}

InitConditional ==
    /\ op = "evaluateContent"
    /\ template \in {Template(content, Obj(<<>>)) : content \in ConditionalContents}
    /\ callerVars = Unused
    /\ varRef = Unused
    /\ store \in ConditionStores
    /\ config = DEFAULT_SECURITY_CONFIG
    /\ url = Unused
    /\ result = Unused
    /\ cache = Unused
    /\ now = 0
    /\ calls = Unused
    /\ events = Unused
    /\ network = Unused
    /\ jsepBuild \in {"LogicalExpression", "BinaryExpression"}
    /\ stages = <<>>

NextConditional == EvaluateContent

SpecConditional == InitConditional /\ [][NextConditional]_vars

\* the condition is accepted and holds under the variables
ConditionHolds(condition) ==
    evaluateCondition(jsepBuild, config.maxExpressionLength, condition, store) = Ok(Bool(TRUE))

\* the elements that are left of a content when every conditional element
\* gives way to its content if its condition holds and to its else if not
RECURSIVE Pruned(_)
Pruned(content) ==
    IF content = <<>> THEN <<>>
    ELSE (IF Head(content).type # "conditional" THEN <<Head(content)>>
          ELSE IF ConditionHolds(Head(content).condition.v) THEN Pruned(Head(content).content.v)
          ELSE IF Head(content).else.t = "array" THEN Pruned(Head(content).else.v)
          ELSE <<>>) \o Pruned(Tail(content))

\* the texts of the text elements that stand directly in a content
DirectTextsOf(content) ==
    {content.v[i].text.v : i \in {k \in DOMAIN content.v : content.v[k].type = "text"}}

\* the conditional elements that stand directly in the content of the template
TopConditionals ==
    {template.content.v[i] :
        i \in {k \in DOMAIN template.content.v : template.content.v[k].type = "conditional"}}

\* C4: when evaluateContent returns, every conditional element has given way
\* to exactly one branch: the result is the content with each conditional
\* replaced by its (recursively evaluated) content when its condition holds
\* and by its else, or by nothing when there is none, when it does not; no
\* text of the other branch is in the result; and `count > 3` keeps content
\* when count is 5 and else when count is 2.
C4_ExactlyOneBranch ==
    (op = "evaluatedContent" /\ result.ok) =>
        /\ result.v = Pruned(template.content.v)
        /\ \A element \in TopConditionals :
              /\ ConditionHolds(element.condition.v) =>
                    /\ DirectTextsOf(element.content) \subseteq TextsOf(Arr(result.v))
                    /\ TextsOf(element.else) \cap TextsOf(Arr(result.v)) = {}
              /\ ~ConditionHolds(element.condition.v) =>
                    /\ element.else.t = "array"
                          => DirectTextsOf(element.else) \subseteq TextsOf(Arr(result.v))
                    /\ TextsOf(element.content) \cap TextsOf(Arr(result.v)) = {}
              /\ element.condition.v = sCountGt3 =>
                    /\ store.v[sCount] = Num(5) =>
                          DirectTextsOf(element.content) \subseteq TextsOf(Arr(result.v))
                    /\ store.v[sCount] = Num(2) =>
                          /\ TextsOf(element.content) \cap TextsOf(Arr(result.v)) = {}
                          /\ element.else.t = "array" =>
                                DirectTextsOf(element.else) \subseteq TextsOf(Arr(result.v))

\* `count > 3` with count 5 and showExtra false: the content is kept, and of
\* the conditional nested in it the else
C4_Witness ==
    /\ op = "evaluatedContent"
    /\ store.v[sCount] = Num(5)
    /\ \E element \in TopConditionals :
          /\ element.condition.v = sCountGt3
          /\ element.else.t = "array"
          /\ element.else.v # <<>>
    /\ result.ok
    /\ result.v = <<Marked(<<"k","e","p","t">>), Marked(<<"i","n","n","e","r"," ","o","t","h","e","r">>)>>

(***************************************************************************)
(* VariableProcessor: processContent and validateVariables.                *)
(***************************************************************************)
\* the first position at or after i where s holds p, or 0 when there is none
IndexOf(s, p, i) ==
    LET found == {k \in i..(Len(s) - Len(p) + 1) : MatchAt(s, k, p)}
    IN  IF found = {} THEN 0 ELSE CHOOSE k \in found : \A j \in found : k <= j

NoMatch == [start |-> 0, end |-> 0]

\* the leftmost match of VARIABLE_PATTERN at or after i: where its `$` and
\* its `}` stand
RECURSIVE NextVariable(_, _)
NextVariable(s, i) ==
    Let(IndexOf(s, <<"$", "{">>, i), LAMBDA start :
    IF start = 0 THEN NoMatch
    ELSE
    Let(IndexOf(s, <<"}">>, start + 2), LAMBDA end :
    IF end = 0 THEN NoMatch
    ELSE IF end = start + 2 THEN NextVariable(s, start + 1)
    ELSE [start |-> start, end |-> end]))

\* the first group of a match
VarRefOf(s, match) == SubSeq(s, match.start + 2, match.end - 1)

\* sanitiseResolvedValue(value)
sanitiseResolvedValue(value) ==
    IF value.t = "string" THEN value.v
    ELSE IF value.t = "array"
    THEN JoinWith([i \in DOMAIN value.v |-> StringOf(value.v[i])], <<",", " ">>)
    ELSE IF value.t = "object"
    THEN <<"[","O","b","j","e","c","t"," ","w","i","t","h"," ">> \o NumberToString(Cardinality(DOMAIN value.v)) \o <<" ","p","r","o","p","e","r","t","i","e","s","]">>
    ELSE IF Len(StringOf(value)) > 1000
    THEN SubSeq(StringOf(value), 1, 1000) \o <<".",".","."," ","[","T","R","U","N","C","A","T","E","D","]">>
    ELSE StringOf(value)

\* text.replace(VARIABLE_PATTERN, ...) from position i of the string
RECURSIVE ReplaceVariables(_, _, _)
ReplaceVariables(s, i, variables) ==
    Let(NextVariable(s, i), LAMBDA match :
    IF match.start = 0 THEN Ok(SubSeq(s, i, Len(s)))
    ELSE
    Let(resolveVariableReference(Trim(VarRefOf(s, match)), variables), LAMBDA value :
    IF ~value.ok THEN Err("ITSVariableError")
    ELSE
    Let(ReplaceVariables(s, match.end + 1, variables), LAMBDA rest :
    IF ~rest.ok THEN rest
    ELSE Ok(SubSeq(s, i, match.start - 1) \o sanitiseResolvedValue(value.v) \o rest.v))))

\* processString(text, variables): the string value, or the error thrown
processString(text, variables) ==
    IF text.t # "string" THEN Err("TypeError")
    ELSE
    Let(ReplaceVariables(text.v, 1, variables), LAMBDA replaced :
    IF ~replaced.ok THEN replaced ELSE Ok(Str(replaced.v)))

\* processObject(obj, variables)
RECURSIVE processObject(_, _)
processObject(obj, variables) ==
    IF obj.t = "string" THEN processString(obj, variables)
    ELSE IF obj.t \in {"array", "object"} THEN
        Let([k \in DOMAIN obj.v |-> processObject(obj.v[k], variables)], LAMBDA items :
        IF \E k \in DOMAIN items : ~items[k].ok THEN Err("ITSVariableError")
        ELSE Ok([t |-> obj.t, v |-> [k \in DOMAIN items |-> items[k].v]]))
    ELSE Ok(obj)

\* processContent(content, variables) and processElement(element, variables)
RECURSIVE processContent(_, _)
processElement(element, variables) ==
    IF element.type = "text" THEN
        Let(processString(element.text, variables), LAMBDA text :
        IF ~text.ok THEN text ELSE Ok([element EXCEPT !.text = text.v]))
    ELSE IF element.type = "placeholder" THEN
        Let(processObject(element.config, variables), LAMBDA cfg :
        IF ~cfg.ok THEN cfg ELSE Ok([element EXCEPT !.config = cfg.v]))
    ELSE IF element.type = "conditional" THEN
        Let(processString(element.condition, variables), LAMBDA condition :
        IF ~condition.ok THEN condition
        ELSE
        Let(processContent(element.content, variables), LAMBDA content :
        IF ~content.ok THEN content
        ELSE
        Let(IF Truthy(element.else) THEN processContent(element.else, variables)
            ELSE Ok(Undefined), LAMBDA else :
        IF ~else.ok THEN else
        ELSE Ok([element EXCEPT !.condition = condition.v, !.content = content.v,
                                !.else = else.v]))))
    ELSE Ok(element)

processContent(content, variables) ==
    IF content.t # "array" THEN Err("TypeError")
    ELSE
    Let([i \in DOMAIN content.v |-> processElement(content.v[i], variables)],
        LAMBDA elements :
    IF \E i \in DOMAIN elements : ~elements[i].ok THEN FirstFailure(elements)
    ELSE Ok(Arr([i \in DOMAIN elements |-> elements[i].v])))

\* JSON.stringify of a string
JsonEscape(c) ==
    CASE c = "\"" -> <<"\\", "\"">>
      [] c = "\\" -> <<"\\", "\\">>
      [] c = "\n" -> <<"\\", "n">>
      [] c = "\t" -> <<"\\", "t">>
      [] c = "\r" -> <<"\\", "r">>
      [] OTHER -> <<c>>

JsonQuote(s) == <<"\"">> \o Concat([i \in DOMAIN s |-> JsonEscape(s[i])]) \o <<"\"">>

\* JSON.stringify shows the value as a member of an object
JsonShown(value) == value.t \notin {"undefined", "function"}

\* JSON.stringify(value); the members of an object in the order of Keys
RECURSIVE JsonOf(_)
JsonOf(value) ==
    CASE value.t = "string" -> JsonQuote(value.v)
      [] value.t = "number" -> NumberToString(value.v)
      [] value.t = "boolean" -> IF value.v THEN sTrue ELSE sFalse
      [] value.t = "array" ->
            <<"[">> \o JoinWith([i \in DOMAIN value.v |->
                                  IF JsonShown(value.v[i]) THEN JsonOf(value.v[i])
                                  ELSE sNull], <<",">>) \o <<"]">>
      [] value.t = "object" ->
            Let(SelectSeq(Keys(value.v), LAMBDA k : JsonShown(value.v[k])), LAMBDA keys :
            <<"{">> \o JoinWith([i \in DOMAIN keys |->
                                  JsonQuote(keys[i]) \o <<":">> \o JsonOf(value.v[keys[i]])],
                                <<",">>) \o <<"}">>)
      [] OTHER -> sNull

\* the text of the members that are shown, between braces
JsonMembers(members) ==
    <<"{">> \o JoinWith(SelectSeq(members, LAMBDA m : m # <<>>), <<",">>) \o <<"}">>

\* the text of a member, or nothing when the value is not shown
JsonMember(key, value, text) ==
    IF JsonShown(value) THEN JsonQuote(key) \o <<":">> \o text ELSE <<>>

\* JSON.stringify of content and of a content element, whose members stand
\* in the order the interfaces of the element types declare them; of an
\* element of another type the model spells no more than that it has a type
RECURSIVE ContentJson(_)
ElementJson(element) ==
    IF element.type = "text" THEN
        JsonMembers(<<JsonMember(<<"t","y","p","e">>, Str(<<"t","e","x","t">>), JsonQuote(<<"t","e","x","t">>)),
                      JsonMember(<<"t","e","x","t">>, element.text, JsonOf(element.text))>>)
    ELSE IF element.type = "placeholder" THEN
        JsonMembers(<<JsonMember(<<"t","y","p","e">>, Str(<<"p","l","a","c","e","h","o","l","d","e","r">>), JsonQuote(<<"p","l","a","c","e","h","o","l","d","e","r">>)),
                      JsonMember(<<"i","n","s","t","r","u","c","t","i","o","n","T","y","p","e">>, element.instructionType,
                                 JsonOf(element.instructionType)),
                      JsonMember(<<"c","o","n","f","i","g">>, element.config, JsonOf(element.config))>>)
    ELSE IF element.type = "conditional" THEN
        JsonMembers(<<JsonMember(<<"t","y","p","e">>, Str(<<"c","o","n","d","i","t","i","o","n","a","l">>), JsonQuote(<<"c","o","n","d","i","t","i","o","n","a","l">>)),
                      JsonMember(<<"c","o","n","d","i","t","i","o","n">>, element.condition,
                                 JsonOf(element.condition)),
                      JsonMember(<<"c","o","n","t","e","n","t">>, element.content,
                                 ContentJson(element.content)),
                      JsonMember(<<"e","l","s","e">>, element.else, ContentJson(element.else))>>)
    ELSE JsonMembers(<<JsonMember(<<"t","y","p","e">>, Str(<<"?">>), JsonQuote(<<"?">>))>>)

ContentJson(content) ==
    IF content.t # "array" THEN JsonOf(content)
    ELSE <<"[">> \o JoinWith([i \in DOMAIN content.v |-> ElementJson(content.v[i])],
                             <<",">>) \o <<"]">>

\* the first groups, trimmed, of the matches of VARIABLE_PATTERN in s from i
RECURSIVE VariableMatches(_, _)
VariableMatches(s, i) ==
    Let(NextVariable(s, i), LAMBDA match :
    IF match.start = 0 THEN <<>>
    ELSE <<Trim(VarRefOf(s, match))>> \o VariableMatches(s, match.end + 1))

\* the members of a sequence, each at its first place only
Distinct(seq) ==
    LET first == {i \in DOMAIN seq : \A k \in 1..(i - 1) : seq[k] # seq[i]}
        Place[n \in 0..Len(seq)] ==
            IF n = 0 THEN <<>>
            ELSE IF n \in first THEN Append(Place[n - 1], seq[n]) ELSE Place[n - 1]
    IN  Place[Len(seq)]

\* findVariableReferences(content)
findVariableReferences(content) == Distinct(VariableMatches(ContentJson(content), 1))

\* an error message of a validation, by what it reports and about what
Message(kind, about) == [kind |-> kind, about |-> about]

\* VariableProcessor.validateVariables(content, variables): the messages
VariableProcessor_validateVariables(content, variables) ==
    Let(findVariableReferences(content), LAMBDA references :
    Let(SelectSeq(references,
                  LAMBDA ref : ~resolveVariableReference(ref, variables).ok),
        LAMBDA failed :
    [i \in DOMAIN failed |-> Message("variable", failed[i])]))

(***************************************************************************)
(* ITSCompiler: validate.                                                  *)
(***************************************************************************)
\* the messages validateContent gives for the element at index i; an element
\* without a type has the empty type
RECURSIVE ITSCompiler_validateContent(_)
ElementMessages(element, i) ==
    IF element.type = "" THEN <<Message("element missing type", i)>>
    ELSE IF element.type = "text" THEN
        IF ~Truthy(element.text) THEN <<Message("text missing text", i)>> ELSE <<>>
    ELSE IF element.type = "placeholder" THEN
        (IF ~Truthy(element.instructionType)
         THEN <<Message("placeholder missing instructionType", i)>> ELSE <<>>)
        \o (IF ~Truthy(element.config) THEN <<Message("placeholder missing config", i)>>
            ELSE IF element.config.t \notin {"object", "array"}
            THEN <<Message("placeholder config must be an object", i)>>
            ELSE IF ~Truthy(Member(element.config, sDescription))
            THEN <<Message("placeholder config missing description", i)>>
            ELSE <<>>)
    ELSE IF element.type = "conditional" THEN
        (IF ~Truthy(element.condition)
         THEN <<Message("conditional missing condition", i)>> ELSE <<>>)
        \o (IF ~Truthy(element.content) THEN <<Message("conditional missing content", i)>>
            ELSE IF element.content.t # "array"
            THEN <<Message("conditional content must be an array", i)>>
            ELSE ITSCompiler_validateContent(element.content.v))
        \o (IF ~Truthy(element.else) THEN <<>>
            ELSE IF element.else.t # "array"
            THEN <<Message("conditional else must be an array", i)>>
            ELSE ITSCompiler_validateContent(element.else.v))
    ELSE <<Message("element has invalid type", i)>>

\* ITSCompiler.validateContent(content): the messages
ITSCompiler_validateContent(content) ==
    Concat([i \in DOMAIN content |-> ElementMessages(content[i], i - 1)])

ValidationResult(isValid, errors, warnings, securityIssues) ==
    [isValid |-> isValid, errors |-> errors, warnings |-> warnings,
     securityIssues |-> securityIssues]

\* template.variables || {}
TemplateVariables(tmpl) ==
    IF Truthy(tmpl.variables) THEN EnumerableVariables(tmpl) ELSE Obj(<<>>)

\* the messages of validate about the required fields
RequiredFieldMessages(tmpl) ==
    (IF ~Truthy(tmpl.version) THEN <<Message("missing version", 0)>> ELSE <<>>)
    \o (IF ~Truthy(tmpl.content) THEN <<Message("missing content", 0)>>
        ELSE IF tmpl.content.t # "array" THEN <<Message("content must be an array", 0)>>
        ELSE IF tmpl.content.v = <<>> THEN <<Message("content cannot be empty", 0)>>
        ELSE <<>>)

\* a validate that swallows what the security validator raises and lists
\* nothing for it
validateSecurityUnlisted(loader, time, net, cfg, tmpl, baseUrl) ==
    Let(loadInstructionTypes(loader, time, net, cfg, tmpl, baseUrl), LAMBDA loaded :
    Let(RequiredFieldMessages(tmpl)
        \o (IF tmpl.content.t = "array" THEN ITSCompiler_validateContent(tmpl.content.v)
            ELSE <<>>)
        \o (IF loaded.result.ok THEN <<>> ELSE <<Message("schema loading", 0)>>)
        \o (IF Truthy(tmpl.content)
            THEN VariableProcessor_validateVariables(tmpl.content, TemplateVariables(tmpl))
            ELSE <<>>), LAMBDA errors :
    [loader |-> loaded.loader,
     result |-> ValidationResult(errors = <<>>, errors, <<>>, <<>>)]))

\* validate(template, baseUrl): the loader it leaves and the ValidationResult
validate(loader, time, net, cfg, tmpl, baseUrl) ==
    Let(validateTemplate(cfg, tmpl), LAMBDA secure :
    Let(loadInstructionTypes(loader, time, net, cfg, tmpl, baseUrl), LAMBDA loaded :
    Let(RequiredFieldMessages(tmpl)
        \o (IF tmpl.content.t = "array" THEN ITSCompiler_validateContent(tmpl.content.v)
            ELSE <<>>)
        \o (IF loaded.result.ok THEN <<>> ELSE <<Message("schema loading", 0)>>)
        \o (IF Truthy(tmpl.content)
            THEN VariableProcessor_validateVariables(tmpl.content, TemplateVariables(tmpl))
            ELSE <<>>), LAMBDA errors :
    [loader |-> loaded.loader,
     result |-> ValidationResult(errors = <<>> /\ secure.ok, errors, <<>>,
                                 IF secure.ok THEN <<>>
                                 ELSE <<Message("security", secure.rule)>>)])))

(***************************************************************************)
(* ITSCompiler: generatePrompt.                                            *)
(***************************************************************************)
getDefaultSystemPrompt ==
    <<"Y","o","u"," ","a","r","e"," ","a","n"," ","A","I"," ","a","s","s","i","s","t","a","n","t"," ","t","h","a","t"," ","f","i","l","l","s"," ","i","n"," ","c","o","n","t","e","n","t"," ","t","e","m","p","l","a","t","e","s","."," ">>
    \o <<"F","o","l","l","o","w"," ","t","h","e"," ","i","n","s","t","r","u","c","t","i","o","n","s"," ","e","x","a","c","t","l","y"," ","a","n","d"," ","r","e","p","l","a","c","e"," ","e","a","c","h"," ","p","l","a","c","e","h","o","l","d","e","r"," ","w","i","t","h"," ">>
    \o <<"a","p","p","r","o","p","r","i","a","t","e"," ","c","o","n","t","e","n","t"," ","b","a","s","e","d"," ","o","n"," ","t","h","e"," ","u","s","e","r"," ","p","r","o","m","p","t","s"," ","p","r","o","v","i","d","e","d","."," ">>
    \o <<"R","e","s","p","o","n","d"," ","o","n","l","y"," ","w","i","t","h"," ","t","h","e"," ","t","r","a","n","s","f","o","r","m","e","d"," ","c","o","n","t","e","n","t",".">>

getDefaultProcessingInstructions ==
    <<<<"R","e","p","l","a","c","e"," ","e","a","c","h"," ","p","l","a","c","e","h","o","l","d","e","r"," ","m","a","r","k","e","d"," ","w","i","t","h"," ","<","<"," ",">",">"," ","w","i","t","h"," ","g","e","n","e","r","a","t","e","d"," ","c","o","n","t","e","n","t">>,
      <<"T","h","e"," ","u","s","e","r","'","s"," ","c","o","n","t","e","n","t"," ","r","e","q","u","e","s","t"," ","i","s"," ","w","r","a","p","p","e","d"," ","i","n"," ","(","[","{","<"," ",">","}","]",")"," ","t","o"," ","d","i","s","t","i","n","g","u","i","s","h"," ","i","t"," ","f","r","o","m"," ","i","n","s","t","r","u","c","t","i","o","n","s">>,
      <<"F","o","l","l","o","w"," ","t","h","e"," ","f","o","r","m","a","t"," ","r","e","q","u","i","r","e","m","e","n","t","s"," ","s","p","e","c","i","f","i","e","d"," ","a","f","t","e","r"," ","e","a","c","h"," ","u","s","e","r"," ","p","r","o","m","p","t">>,
      <<"M","a","i","n","t","a","i","n"," ","t","h","e"," ","e","x","i","s","t","i","n","g"," ","s","t","r","u","c","t","u","r","e"," ","a","n","d"," ","f","o","r","m","a","t","t","i","n","g"," ","o","f"," ","t","h","e"," ","t","e","m","p","l","a","t","e">>,
      <<"O","n","l","y"," ","r","e","p","l","a","c","e"," ","t","h","e"," ","p","l","a","c","e","h","o","l","d","e","r","s"," ","-"," ","d","o"," ","n","o","t"," ","m","o","d","i","f","y"," ","a","n","y"," ","o","t","h","e","r"," ","t","e","x","t">>,
      <<"G","e","n","e","r","a","t","e"," ","c","o","n","t","e","n","t"," ","t","h","a","t"," ","m","a","t","c","h","e","s"," ","t","h","e"," ","t","o","n","e"," ","a","n","d"," ","s","t","y","l","e"," ","r","e","q","u","e","s","t","e","d">>,
      <<"R","e","s","p","o","n","d"," ","o","n","l","y"," ","w","i","t","h"," ","t","h","e"," ","t","r","a","n","s","f","o","r","m","e","d"," ","c","o","n","t","e","n","t"," ","-"," ","d","o"," ","n","o","t"," ","i","n","c","l","u","d","e"," ","a","n","y"," ","e","x","p","l","a","n","a","t","i","o","n","s"," ","o","r"," ","a","d","d","i","t","i","o","n","a","l"," ","t","e","x","t">>>>

sSystemPrompt == <<"s","y","s","t","e","m","P","r","o","m","p","t">>
sInstructionWrapper == <<"i","n","s","t","r","u","c","t","i","o","n","W","r","a","p","p","e","r">>
sProcessingInstructions == <<"p","r","o","c","e","s","s","i","n","g","I","n","s","t","r","u","c","t","i","o","n","s">>
sInstructionSlot == <<"{","i","n","s","t","r","u","c","t","i","o","n","}">>
sDescriptionSlot == <<"{","d","e","s","c","r","i","p","t","i","o","n","}">>

\* an ITSCompilationError of the stage, and the error it wraps if any
CompilationError(stage, cause) ==
    [ok |-> FALSE, v |-> Undefined, err |-> "ITSCompilationError", rule |-> stage,
     cause |-> cause]

\* the text a string given as the replacement of String.replace stands for:
\* $$ is a dollar, $& the match and $' what follows the match
RECURSIVE ExpandReplacement(_, _, _)
ExpandReplacement(replacement, matched, after) ==
    LET found == {k \in 1..(Len(replacement) - 1) :
                    replacement[k] = "$" /\ replacement[k + 1] \in {"$", "&", "'"}}
    IN  IF found = {} THEN replacement
        ELSE Let(CHOOSE k \in found : \A j \in found : k <= j, LAMBDA at :
             SubSeq(replacement, 1, at - 1)
             \o (CASE replacement[at + 1] = "$" -> <<"$">>
                   [] replacement[at + 1] = "&" -> matched
                   [] OTHER -> after)
             \o ExpandReplacement(SubSeq(replacement, at + 2, Len(replacement)),
                                  matched, after))

\* s.replace(p, replacement) for a string p: the first occurrence
ReplaceFirst(s, p, replacement) ==
    Let(IndexOf(s, p, 1), LAMBDA at :
    IF at = 0 THEN s
    ELSE SubSeq(s, 1, at - 1)
         \o ExpandReplacement(replacement, p, SubSeq(s, at + Len(p), Len(s)))
         \o SubSeq(s, at + Len(p), Len(s)))

\* s.replace(/p/g, replacement) for the text p taken literally, from i
RECURSIVE ReplaceAll(_, _, _, _)
ReplaceAll(s, i, p, replacement) ==
    Let(IndexOf(s, p, i), LAMBDA at :
    IF at = 0 THEN SubSeq(s, i, Len(s))
    ELSE SubSeq(s, i, at - 1)
         \o ExpandReplacement(replacement, p, SubSeq(s, at + Len(p), Len(s)))
         \o ReplaceAll(s, at + Len(p), p, replacement))

\* the loop of formatInstruction over Object.entries(config), from the i-th key
RECURSIVE ReplaceConfigKeys(_, _, _, _)
ReplaceConfigKeys(formattedTemplate, entries, keys, i) ==
    IF i > Len(keys) THEN formattedTemplate
    ELSE IF keys[i] = sDescription
    THEN ReplaceConfigKeys(formattedTemplate, entries, keys, i + 1)
    ELSE ReplaceConfigKeys(ReplaceAll(formattedTemplate, 1, <<"{">> \o keys[i] \o <<"}">>,
                                      StringOf(entries[keys[i]])),
                           entries, keys, i + 1)

\* formatInstruction(instructionType, config), given instructionType.template
formatInstruction(typeTemplate, cfgValue) ==
    IF cfgValue.t \in {"null", "undefined"} \/ typeTemplate.t # "string" THEN Err("TypeError")
    ELSE
    Let(Member(cfgValue, sDescription), LAMBDA description :
    Ok(ReplaceConfigKeys(ReplaceAll(typeTemplate.v, 1, sDescriptionSlot,
                                    IF Truthy(description) THEN StringOf(description)
                                    ELSE <<>>),
                         EntriesOf(cfgValue), Keys(EntriesOf(cfgValue)), 1)))

\* generateInstruction(placeholder, instructionTypes)
generateInstruction(placeholder, instructionTypes) ==
    Let(PropertyKey(placeholder.instructionType), LAMBDA instructionTypeName :
    IF ~HasProperty(Obj(instructionTypes), instructionTypeName)
    THEN CompilationError("instruction_generation", "unknown instruction type")
    ELSE
    Let(formatInstruction(IF instructionTypeName \in DOMAIN instructionTypes
                          THEN instructionTypes[instructionTypeName].template
                          ELSE Undefined, placeholder.config), LAMBDA formatted :
    IF ~formatted.ok THEN CompilationError("instruction_generation", formatted.err)
    ELSE formatted))

\* the pieces of the content joined with a space between them
JoinProcessedContentSpaced(processedContent) == JoinWith(processedContent, <<" ">>)

\* processedContent.join('')
JoinProcessedContent(processedContent) == Concat(processedContent)

\* what the loop of generatePrompt pushes for an element: the pieces, or the
\* error thrown
ElementPieces(element, instructionTypes, instructionWrapper) ==
    IF element.type = "text" THEN Ok(<<StringOf(element.text)>>)
    ELSE IF element.type = "placeholder" THEN
        Let(generateInstruction(element, instructionTypes), LAMBDA instruction :
        IF ~instruction.ok THEN instruction
        ELSE IF StartsWith(instruction.v, <<"<", "<">>) /\ EndsWith(instruction.v, <<">", ">">>)
        THEN Ok(<<instruction.v>>)
        ELSE IF instructionWrapper.t # "string" THEN Err("TypeError")
        ELSE Ok(<<ReplaceFirst(instructionWrapper.v, sInstructionSlot, instruction.v)>>))
    ELSE Ok(<<>>)

\* compilerConfig.name || fallback
ConfiguredOr(compilerConfig, name, fallback) ==
    IF Truthy(Member(compilerConfig, name)) THEN Member(compilerConfig, name) ELSE fallback

\* the lines of the prompt that stand before the content
PromptHead(systemPrompt, processingInstructions) ==
    <<<<"I","N","T","R","O","D","U","C","T","I","O","N">>, <<>>, StringOf(systemPrompt), <<>>, <<"I","N","S","T","R","U","C","T","I","O","N","S">>, <<>>>>
    \o [i \in DOMAIN processingInstructions |->
            NumberToString(i) \o <<".", " ">> \o StringOf(processingInstructions[i])]
    \o <<<<>>, <<"T","E","M","P","L","A","T","E">>, <<>>>>

\* generatePrompt(content, instructionTypes, template): the prompt, or the
\* error thrown
generatePrompt(content, instructionTypes, tmpl) ==
    Let(IF Truthy(tmpl.compilerConfig) THEN tmpl.compilerConfig ELSE Obj(<<>>),
        LAMBDA compilerConfig :
    Let(ConfiguredOr(compilerConfig, sProcessingInstructions,
                     Arr([i \in DOMAIN getDefaultProcessingInstructions |->
                            Str(getDefaultProcessingInstructions[i])])),
        LAMBDA processingInstructions :
    Let([i \in DOMAIN content |->
            ElementPieces(content[i], instructionTypes,
                          ConfiguredOr(compilerConfig, sInstructionWrapper,
                                       Str(<<"<","<","{","i","n","s","t","r","u","c","t","i","o","n","}",">",">">>)))], LAMBDA pieces :
    IF \E i \in DOMAIN pieces : ~pieces[i].ok THEN FirstFailure(pieces)
    ELSE IF processingInstructions.t # "array" THEN Err("TypeError")
    ELSE Ok(JoinWith(PromptHead(ConfiguredOr(compilerConfig, sSystemPrompt,
                                             Str(getDefaultSystemPrompt)),
                                processingInstructions.v)
                     \o <<JoinProcessedContent(
                            Concat([i \in DOMAIN pieces |-> pieces[i].v]))>>,
                     <<"\n">>)))))

(***************************************************************************)
(* ITSCompiler: compile.                                                   *)
(***************************************************************************)
\* the own enumerable properties that a spread copies
SpreadOf(value) ==
    IF value.t = "string"
    THEN [k \in {NumberToString(i - 1) : i \in DOMAIN value.v} |->
            Str(<<value.v[CHOOSE i \in DOMAIN value.v : NumberToString(i - 1) = k]>>)]
    ELSE EntriesOf(value)

\* the merge with the two spreads in the other order: the variables of the
\* template set over those of the caller
MergeVariablesTemplateFirst(templateVariables, variables) ==
    Obj([k \in DOMAIN SpreadOf(templateVariables) \cup DOMAIN SpreadOf(variables) |->
            IF k \in DOMAIN SpreadOf(templateVariables) THEN SpreadOf(templateVariables)[k]
            ELSE SpreadOf(variables)[k]])

\* { ...templateVariables, ...(variables || {}) }
MergeVariables(templateVariables, variables) ==
    Obj([k \in DOMAIN SpreadOf(templateVariables) \cup DOMAIN SpreadOf(variables) |->
            IF k \in DOMAIN SpreadOf(variables) THEN SpreadOf(variables)[k]
            ELSE SpreadOf(templateVariables)[k]])

\* the ITSValidationError that compile throws on a ValidationResult
ValidationError(validationResult) ==
    [ok |-> FALSE, v |-> Undefined, err |-> "ITSValidationError", rule |-> "none",
     validationErrors |-> validationResult.errors,
     securityIssues |-> validationResult.securityIssues]

\* a catch that throws every error on as it caught it
RethrownUnwrapped(thrown) == thrown

\* what the catch of compile throws for an error thrown in its try
Rethrown(thrown) ==
    IF thrown.err \in {"ITSValidationError", "ITSCompilationError"} THEN thrown
    ELSE CompilationError("compilation", [err |-> thrown.err, rule |-> thrown.rule])

CompilationResult(prompt, tmpl, variables, overrides, warnings) ==
    [prompt |-> prompt, template |-> tmpl, variables |-> variables,
     overrides |-> overrides, warnings |-> warnings]

\* the stages of compile, by the calls it makes in its try block
CompileStages ==
    <<"validateTemplate", "validate", "loadInstructionTypes", "processContent",
      "evaluateContent", "generatePrompt">>

\* the stages compile entered when the one named was the last
StagesUpTo(stage) ==
    SubSeq(CompileStages, 1, CHOOSE i \in DOMAIN CompileStages : CompileStages[i] = stage)

\* what a call of compile leaves: the loader, the CompilationResult or the
\* error thrown, and the stages it entered
Compiled(loader, outcome, lastStage) ==
    [loader |-> loader, result |-> outcome, stages |-> StagesUpTo(lastStage)]

\* a compile that validates the structure, and with it loads the schemas,
\* before it looks at what the security validator says
compileSecurityLate(loader, time, net, cfg, build, tmpl, variables, baseUrl) ==
    Let(validate(loader, time, net, cfg, tmpl, baseUrl), LAMBDA validation :
    Let(validateTemplate(cfg, tmpl), LAMBDA secure :
    IF ~secure.ok THEN Compiled(validation.loader, Rethrown(secure), "validateTemplate")
    ELSE IF ~validation.result.isValid
    THEN Compiled(validation.loader, ValidationError(validation.result), "validate")
    ELSE
    Let(MergeVariables(TemplateVariables(tmpl), variables), LAMBDA mergedVariables :
    Let(loadInstructionTypes(validation.loader, time, net, cfg, tmpl, baseUrl),
        LAMBDA types :
    IF ~types.result.ok
    THEN Compiled(types.loader, Rethrown(types.result), "loadInstructionTypes")
    ELSE
    Let(processContent(tmpl.content, mergedVariables), LAMBDA processedContent :
    IF ~processedContent.ok
    THEN Compiled(types.loader, Rethrown(processedContent), "processContent")
    ELSE
    Let(evaluateContent(build, cfg.maxExpressionLength, processedContent.v.v,
                        mergedVariables), LAMBDA finalContent :
    IF ~finalContent.ok
    THEN Compiled(types.loader, Rethrown(finalContent), "evaluateContent")
    ELSE
    Let(generatePrompt(finalContent.v, types.result.v.instructionTypes, tmpl),
        LAMBDA prompt :
    Compiled(types.loader,
             IF ~prompt.ok THEN Rethrown(prompt)
             ELSE Ok(CompilationResult(prompt.v, tmpl, mergedVariables,
                                       types.result.v.overrides,
                                       validation.result.warnings)),
             "generatePrompt"))))))))

\* a compile whose substitution writes the processed content back into the
\* template it was given
compileInPlace(loader, time, net, cfg, build, tmpl, variables, baseUrl) ==
    Let(validateTemplate(cfg, tmpl), LAMBDA secure :
    IF ~secure.ok THEN Compiled(loader, Rethrown(secure), "validateTemplate")
    ELSE
    Let(validate(loader, time, net, cfg, tmpl, baseUrl), LAMBDA validation :
    IF ~validation.result.isValid
    THEN Compiled(validation.loader, ValidationError(validation.result), "validate")
    ELSE
    Let(MergeVariables(TemplateVariables(tmpl), variables), LAMBDA mergedVariables :
    Let(loadInstructionTypes(validation.loader, time, net, cfg, tmpl, baseUrl),
        LAMBDA types :
    IF ~types.result.ok
    THEN Compiled(types.loader, Rethrown(types.result), "loadInstructionTypes")
    ELSE
    Let(processContent(tmpl.content, mergedVariables), LAMBDA processedContent :
    IF ~processedContent.ok
    THEN Compiled(types.loader, Rethrown(processedContent), "processContent")
    ELSE
    Let(evaluateContent(build, cfg.maxExpressionLength, processedContent.v.v,
                        mergedVariables), LAMBDA finalContent :
    IF ~finalContent.ok
    THEN Compiled(types.loader, Rethrown(finalContent), "evaluateContent")
    ELSE
    Let(generatePrompt(finalContent.v, types.result.v.instructionTypes, tmpl),
        LAMBDA prompt :
    Compiled(types.loader,
             IF ~prompt.ok THEN Rethrown(prompt)
             ELSE Ok(CompilationResult(prompt.v,
                                       [tmpl EXCEPT !.content = processedContent.v],
                                       mergedVariables,
                                       types.result.v.overrides,
                                       validation.result.warnings)),
             "generatePrompt"))))))))

\* compile(template, variables, {baseUrl})
compile(loader, time, net, cfg, build, tmpl, variables, baseUrl) ==
    Let(validateTemplate(cfg, tmpl), LAMBDA secure :
    IF ~secure.ok THEN Compiled(loader, Rethrown(secure), "validateTemplate")
    ELSE
    Let(validate(loader, time, net, cfg, tmpl, baseUrl), LAMBDA validation :
    IF ~validation.result.isValid
    THEN Compiled(validation.loader, ValidationError(validation.result), "validate")
    ELSE
    Let(MergeVariables(TemplateVariables(tmpl), variables), LAMBDA mergedVariables :
    Let(loadInstructionTypes(validation.loader, time, net, cfg, tmpl, baseUrl),
        LAMBDA types :
    IF ~types.result.ok
    THEN Compiled(types.loader, Rethrown(types.result), "loadInstructionTypes")
    ELSE
    Let(processContent(tmpl.content, mergedVariables), LAMBDA processedContent :
    IF ~processedContent.ok
    THEN Compiled(types.loader, Rethrown(processedContent), "processContent")
    ELSE
    Let(evaluateContent(build, cfg.maxExpressionLength, processedContent.v.v,
                        mergedVariables), LAMBDA finalContent :
    IF ~finalContent.ok
    THEN Compiled(types.loader, Rethrown(finalContent), "evaluateContent")
    ELSE
    Let(generatePrompt(finalContent.v, types.result.v.instructionTypes, tmpl),
        LAMBDA prompt :
    Compiled(types.loader,
             IF ~prompt.ok THEN Rethrown(prompt)
             ELSE Ok(CompilationResult(prompt.v, tmpl, mergedVariables,
                                       types.result.v.overrides,
                                       validation.result.warnings)),
             "generatePrompt"))))))))

\* a call of compile for the template with the variables of the caller; the
\* template of the result is the object the caller passed, so that what the
\* caller's template holds after the call is what the result shows
Compile ==
    /\ op = "compile"
    /\ Let(compile(Loader(cache, calls, events), now, network, config, jsepBuild,
                   template, callerVars, url), LAMBDA compiled :
          /\ result' = compiled.result
          /\ template' = IF compiled.result.ok THEN compiled.result.v.template ELSE template
          /\ cache' = compiled.loader.cache
          /\ calls' = compiled.loader.calls
          /\ events' = compiled.loader.events
          /\ stages' = compiled.stages)
    /\ op' = "compiled"
    /\ UNCHANGED <<callerVars, varRef, store, config, url, now, network, jsepBuild>>

(***************************************************************************)
(* SpecCompile: compile for three families of templates.  The first holds  *)
(* text elements only; the second one text with a single ${...} span, over *)
(* references that name variables, paths that lead nowhere, and names      *)
(* every JavaScript object inherits; the third reads variables that the    *)
(* caller may override, in a span and in a condition.  Placeholders of a   *)
(* custom type and of a type an extended schema defines take the compiler  *)
(* through the schema loader.                                              *)
(***************************************************************************)
PlainTexts ==
    {<<"H","e","l","l","o"," ","w","o","r","l","d">>, <<" ","a","n","d"," ","m","o","r","e","."," ">>, <<"c","o","s","t",":"," ","$","5"," ","{","b","r","a","c","e","s","}"," ","$","{","}"," ">>, <<"l","i","n","e","\n","n","e","x","t">>}

\* texts that are not accepted: an empty one, and one that opens a span it
\* does not close
RefusedTexts == {<<>>, <<"s","a","y"," ","$","{">>}

TextOnlyContents ==
    {[i \in DOMAIN texts |-> TextElement(Str(texts[i]))] : texts \in SeqsUpTo(PlainTexts, 3)}
    \cup {<<TextElement(Str(<<"H","e","l","l","o"," ","w","o","r","l","d">>)), TextElement(Str(text))>> : text \in RefusedTexts}

sAbout == <<"A","b","o","u","t"," ">>
sBig == <<" ","b","i","g">>
sSmall == <<" ","s","m","a","l","l">>
sExtra == <<"e","x","t","r","a">>

\* the text with one span that holds the reference
SpanText(ref) == sAbout \o <<"$", "{">> \o ref \o <<"}", "!">>

SubstitutionVariables ==
    Obj((sTopic :> Str(<<"x">>)) @@ (sCount :> Num(2)) @@ (<<"f","l","a","g">> :> Bool(TRUE))
        @@ (<<"n","o","t","h","i","n","g">> :> Null) @@ (<<"e","m","p","t","y">> :> Str(<<>>))
        @@ (sUser :> Obj((sName :> Str(<<"A","l">>)) @@ (<<"a","g","e">> :> Num(30))))
        @@ (sItems :> Arr(<<Str(<<"a">>), Num(7)>>)))

SubstitutionRefs ==
    {sTopic, sCount, <<"f","l","a","g">>, <<"n","o","t","h","i","n","g">>, <<"e","m","p","t","y">>, <<" ","t","o","p","i","c"," ">>, <<"u","s","e","r",".","n","a","m","e">>,
     <<"i","t","e","m","s","[","0","]">>, <<"i","t","e","m","s","[","-","1","]">>, <<"i","t","e","m","s",".","l","e","n","g","t","h">>, sItems, sUser, <<"t","o","p","i","c",".","l","e","n","g","t","h">>,
     <<"m","i","s","s","i","n","g">>, <<"u","s","e","r",".","m","i","s","s","i","n","g">>, <<"i","t","e","m","s","[","5","]">>, <<"t","o","p","i","c",".","n","a","m","e">>, <<"1","a","b","c">>, <<"_","x">>,
     sToString, sConstructor, sValueOf, <<"u","s","e","r",".","t","o","S","t","r","i","n","g">>}

sCountReadFromSpan == <<"$","{","c","o","u","n","t","}"," ",">"," ","3">>

\* a span and a condition that read variables, the condition in the two ways
\* a template may write it
MergeContents ==
    {<<TextElement(Str(SpanText(sTopic))),
       ConditionalElement(Str(condition), Arr(<<TextElement(Str(sBig))>>),
                          Arr(<<TextElement(Str(sSmall))>>))>> :
        condition \in {sCountGt3, sCountReadFromSpan}}
    \cup {<<TextElement(Str(SpanText(ref)))>> : ref \in {<<"u","s","e","r",".","a","g","e">>, sExtra}}

MergeVariablesOfTemplate ==
    Obj((sTopic :> Str(<<"x">>)) @@ (sCount :> Num(2))
        @@ (sUser :> Obj((sName :> Str(<<"A","l">>)) @@ (<<"a","g","e">> :> Num(30)))))

CallerChoices ==
    {Undefined, Obj(<<>>), Obj(sTopic :> Str(<<"y">>)), Obj(sCount :> Num(5)),
     Obj((sTopic :> Str(<<"y">>)) @@ (sCount :> Num(5))),
     Obj((sTopic :> Num(7)) @@ (sCount :> Num(3))),
     Obj(sUser :> Obj(sName :> Str(<<"B","o">>))), Obj(sExtra :> Str(<<"z">>))}

\* a placeholder of the type list, which the template defines itself or
\* takes from the schema it extends, or which nothing defines
PlaceholderTemplates ==
    {[Template(<<TextElement(Str(<<"I","t","e","m","s",":"," ">>)),
                 PlaceholderElement(Str(typeName),
                                    Obj((sDescription :> Str(<<"t","h","r","e","e"," ","$","{","t","o","p","i","c","}"," ","t","h","i","n","g","s">>))
                                        @@ (sCount :> Num(3))))>>,
               Obj(sTopic :> Str(<<"x">>)))
        EXCEPT !.extends = e, !.customInstructionTypes = c] :
        typeName \in {sList, sToString},
        e \in {Undefined, Arr(<<Str(sSchemaA)>>)},
        c \in {Undefined, Obj(sList :> Obj(sTemplate :> Str(<<"L","i","s","t"," ","o","f"," ","{","c","o","u","n","t","}",":"," ","{","d","e","s","c","r","i","p","t","i","o","n","}">>)))}}

CompileInput(tmpl, variables, ref) == [template |-> tmpl, variables |-> variables, ref |-> ref]

CompileInputs ==
    {CompileInput(Template(content, Undefined), Undefined, Unused) :
        content \in TextOnlyContents}
    \cup {CompileInput([Template(<<TextElement(Str(<<"H","e","l","l","o"," ","w","o","r","l","d">>))>>, Undefined)
                           EXCEPT !.compilerConfig =
                               Obj((sSystemPrompt :> Str(<<"F","i","l","l"," ","i","n"," ","t","h","e"," ","T","E","M","P","L","A","T","E">>))
                                   @@ (sProcessingInstructions :> Arr(<<Str(<<"B","e"," ","b","r","i","e","f">>)>>)))],
                       Undefined, Unused)}
    \cup {CompileInput(Template(<<TextElement(Str(SpanText(ref)))>>, variables),
                       Undefined, ref) :
            ref \in SubstitutionRefs, variables \in {SubstitutionVariables, Obj(<<>>)}}
    \cup {CompileInput(Template(content, MergeVariablesOfTemplate), variables, Unused) :
            content \in MergeContents, variables \in CallerChoices}
    \cup {CompileInput(tmpl, Undefined, Unused) : tmpl \in PlaceholderTemplates}

InitCompile ==
    /\ op = "compile"
    /\ \E input \in CompileInputs :
          /\ template = input.template
          /\ callerVars = input.variables
          /\ varRef = input.ref
    /\ store = Unused
    /\ config = DEFAULT_SECURITY_CONFIG
    /\ url = Undefined
    /\ result = Unused
    /\ cache = <<>>
    /\ now = 0
    /\ calls = <<>>
    /\ events = <<>>
    /\ network = (sSchemaA :> [GoodResponse EXCEPT !.json = Ok(SchemaOf({sList}, <<"A">>))])
    /\ jsepBuild \in {"LogicalExpression", "BinaryExpression"}
    /\ stages = <<>>

NextCompile == Compile

SpecCompile == InitCompile /\ [][NextCompile]_vars

\* the string holds a ${...} span: `${`, then one character or more that are
\* not `}`, then `}`
HasSpan(s) ==
    \E i \in 1..Len(s) : \E j \in (i + 3)..Len(s) :
        /\ s[i] = "$"
        /\ s[i + 1] = "{"
        /\ s[j] = "}"
        /\ \A k \in (i + 2)..(j - 1) : s[k] # "}"

\* the content of the template holds text elements only, and none with a span
TextOnly ==
    /\ template.content.t = "array"
    /\ \A i \in DOMAIN template.content.v :
          /\ template.content.v[i].type = "text"
          /\ template.content.v[i].text.t = "string"
          /\ ~HasSpan(template.content.v[i].text.v)

\* the texts of the elements of the content, in document order
TextsInOrder == [i \in DOMAIN template.content.v |-> template.content.v[i].text.v]

sTemplateHeading == <<"\n","T","E","M","P","L","A","T","E","\n","\n">>

VariablesOfTemplate == IF template.variables.t = "object" THEN template.variables.v ELSE <<>>
VariablesOfCaller == IF callerVars.t = "object" THEN callerVars.v ELSE <<>>
IsDefinedVariable(name) == name \in DOMAIN VariablesOfTemplate \cup DOMAIN VariablesOfCaller
UsedVariable(name) ==
    IF name \in DOMAIN VariablesOfCaller THEN VariablesOfCaller[name]
    ELSE VariablesOfTemplate[name]

\* the string form of a scalar
ScalarText(value) ==
    CASE value.t = "string" -> value.v
      [] value.t = "number" -> NumberToString(value.v)
      [] value.t = "boolean" -> IF value.v THEN <<"t","r","u","e">> ELSE <<"f","a","l","s","e">>

\* the name a reference starts with
RootName(ref) == SubSeq(Trim(ref), 1, RunEnd(Trim(ref), 1, IdentChar) - 1)

\* C2: a span whose reference names a defined scalar is replaced by the
\* string form of the scalar, and a span whose reference cannot be resolved,
\* as one that starts with a name no variable has, makes compile fail, so
\* that no prompt is produced for it.
C2_UnresolvedSpanFailsClosed ==
    (op = "compiled" /\ varRef # Unused) =>
        /\ (/\ result.ok
            /\ IsDefinedVariable(varRef)
            /\ UsedVariable(varRef).t \in {"string", "number", "boolean"})
               => EndsWith(result.v.prompt,
                           sTemplateHeading \o sAbout \o ScalarText(UsedVariable(varRef))
                               \o <<"!">>)
        /\ ~IsDefinedVariable(RootName(varRef)) => ~result.ok

\* the variables of the result
ResultVariables == result.v.variables.v

\* C10: the variables compile works with are the shallow merge of those of
\* the template and those of the caller: result.variables holds every key of
\* either, with the value of the caller where both have the key; and the
\* span ${topic} and the condition on count read the merged values.
C10_CallerVariablesOverride ==
    (op = "compiled" /\ result.ok) =>
        /\ DOMAIN ResultVariables = DOMAIN VariablesOfTemplate \cup DOMAIN VariablesOfCaller
        /\ \A k \in DOMAIN VariablesOfCaller : ResultVariables[k] = VariablesOfCaller[k]
        /\ \A k \in DOMAIN VariablesOfTemplate \ DOMAIN VariablesOfCaller :
              ResultVariables[k] = VariablesOfTemplate[k]
        /\ template.content.v \in MergeContents /\ Len(template.content.v) = 2 =>
              EndsWith(result.v.prompt,
                       sTemplateHeading \o sAbout \o ScalarText(UsedVariable(sTopic))
                           \o <<"!">>
                           \o (IF UsedVariable(sCount).v > 3 THEN sBig ELSE sSmall))

\* the caller overrides topic and count, and leaves user to the template
C10_Witness ==
    /\ op = "compiled"
    /\ template.variables.t = "object"
    /\ template.variables = MergeVariablesOfTemplate
    /\ callerVars # Unused
    /\ callerVars.t = "object"
    /\ callerVars = Obj((sTopic :> Str(<<"y">>)) @@ (sCount :> Num(5)))
    /\ Len(template.content.v) = 2
    /\ template.content.v[2].type = "conditional"
    /\ template.content.v[2].condition.v = sCountGt3
    /\ result.ok
    /\ result.v.variables =
          Obj((sTopic :> Str(<<"y">>)) @@ (sCount :> Num(5))
              @@ (sUser :> Obj((sName :> Str(<<"A","l">>)) @@ (<<"a","g","e">> :> Num(30)))))
    /\ EndsWith(result.v.prompt, <<"\n","T","E","M","P","L","A","T","E","\n","\n","A","b","o","u","t"," ","y","!"," ","b","i","g">>)

(***************************************************************************)
(* SpecValidate: validate and compile for templates with faults of each    *)
(* kind, alone and together: a required field left out, an element of a    *)
(* wrong type or shape, a reference no variable answers, a text or a       *)
(* variable key or an extends URL the security validator rejects, and a    *)
(* schema the network does not give.                                       *)
(***************************************************************************)
\* a call of validate for the template
Validate ==
    /\ op = "validate"
    /\ Let(validate(Loader(cache, calls, events), now, network, config, template, url),
           LAMBDA validation :
          /\ result' = Ok(validation.result)
          /\ cache' = validation.loader.cache
          /\ calls' = validation.loader.calls
          /\ events' = validation.loader.events)
    /\ op' = "validated"
    /\ UNCHANGED <<template, callerVars, varRef, store, config, url, now, network, jsepBuild, stages>>

sMissing == <<"m","i","s","s","i","n","g">>
sNopeX == <<"n","o","p","e",".","x">>

GoodElement == TextElement(Str(sHello))

\* elements of a wrong type or shape
EmptyText == TextElement(Str(<<>>))
InvalidType == [type |-> "invalid_type", instructionType |-> Undefined, config |-> Undefined]
NoCondition == ConditionalElement(Undefined, Arr(<<GoodElement>>), Undefined)
NoConfig == PlaceholderElement(Str(sList), Undefined)
NoDescription == PlaceholderElement(Str(sList), Obj(sCount :> Num(3)))
StructuralFaults == {EmptyText, InvalidType, NoCondition, NoConfig, NoDescription}

\* texts with references: to a name no variable has, and to a path through
\* a name no variable has next to a reference that resolves
MissingSpan == TextElement(Str(<<"H","i"," ","$","{","m","i","s","s","i","n","g","}">>))
NopeSpan == TextElement(Str(<<"$","{","n","o","p","e",".","x","}"," ","a","n","d"," ","$","{","t","o","p","i","c","}">>))
GoodSpan == TextElement(Str(<<"A","b","o","u","t"," ","$","{","t","o","p","i","c","}">>))

\* a text of the deny-list
ScriptText == TextElement(Str(<<"<","s","c","r","i","p","t",">","a","l","e","r","t","(","1",")","<","/","s","c","r","i","p","t",">">>))

ValidateElements ==
    StructuralFaults \cup {GoodElement, MissingSpan, NopeSpan, GoodSpan, ScriptText}

\* the network of the specification: the schema at A is served, the one at B
\* is not
ValidateNetwork ==
    (sSchemaA :> [GoodResponse EXCEPT !.json = Ok(SchemaOf({sList}, <<"A">>))])
    @@ (sSchemaB :> [GoodResponse EXCEPT !.failure = "network"])

ValidateTemplates ==
    {[Template(content, Obj(sTopic :> Str(<<"x">>))) EXCEPT !.version = version] :
        content \in SeqsUpTo(ValidateElements, 2), version \in {Str(sVersion), Undefined}}
    \cup {[Template(<<GoodElement>>, Obj(sTopic :> Str(<<"x">>)))
              EXCEPT !.content = content] : content \in {Undefined, Str(sHello)}}
    \cup {[Template(<<element>>, variables) EXCEPT !.extends = extends] :
            element \in {GoodElement, EmptyText, MissingSpan},
            variables \in {Undefined, Obj(sTopic :> Str(<<"x">>)),
                           Obj(sConstructor :> Str(<<"x">>))},
            extends \in {Undefined, Arr(<<Str(sSchemaA)>>), Arr(<<Str(sSchemaB)>>),
                         Arr(<<Str(sPrivateUrl)>>),
                         Arr(<<Str(sSchemaA), Str(sPrivateUrl)>>)}}

InitValidate ==
    /\ op \in {"validate", "compile"}
    /\ template \in ValidateTemplates
    /\ callerVars = Undefined
    /\ varRef = Unused
    /\ store = Unused
    /\ config = DEFAULT_SECURITY_CONFIG
    /\ url = Undefined
    /\ result = Unused
    /\ cache = <<>>
    /\ now = 0
    /\ calls = <<>>
    /\ events = <<>>
    /\ network = ValidateNetwork
    /\ jsepBuild \in {"LogicalExpression", "BinaryExpression"}
    /\ stages = <<>>

NextValidate == Validate \/ Compile

SpecValidate == InitValidate /\ [][NextValidate]_vars

\* the errors and the security issues of the report, as sets
ReportedErrors == Range(result.v.errors)
ReportedIssues == Range(result.v.securityIssues)

\* the top-level elements of the template, when its content is an array
TopElements == IF template.content.t = "array" THEN template.content.v ELSE <<>>

\* the message validateContent owes to an element of a wrong type or shape
FaultKind(element) ==
    CASE element = EmptyText -> "text missing text"
      [] element = InvalidType -> "element has invalid type"
      [] element = NoCondition -> "conditional missing condition"
      [] element = NoConfig -> "placeholder missing config"
      [] element = NoDescription -> "placeholder config missing description"

\* the references of the template that no variable answers
UndefinedRefsOf(element) ==
    IF element = MissingSpan THEN {sMissing}
    ELSE IF element = NopeSpan THEN {sNopeX}
    ELSE {}

\* the rule of the security validator that the template breaks first, "none"
\* when it breaks none: the deny-list of texts, then the keys of the
\* variables, then the SSRF guard over extends
BrokenRule ==
    IF \E i \in DOMAIN TopElements : TopElements[i] = ScriptText THEN "content_validation"
    ELSE IF template.variables.t = "object" /\ sConstructor \in DOMAIN template.variables.v
    THEN "dangerous_property"
    ELSE IF template.extends.t = "array"
            /\ \E i \in DOMAIN template.extends.v : template.extends.v[i] = Str(sPrivateUrl)
    THEN "private_network_blocked"
    ELSE "none"

\* an element the security validator cannot read: it has no condition or no
\* config to scan
Unreadable(element) == element \in {NoCondition, NoConfig}

\* the template has no fault of any kind
Faultless ==
    /\ Truthy(template.version)
    /\ TopElements # <<>>
    /\ \A i \in DOMAIN TopElements : TopElements[i] \in {GoodElement, GoodSpan}
    /\ BrokenRule = "none"
    /\ template.extends.t = "array" => template.extends.v = <<Str(sSchemaA)>>
    /\ \E i \in DOMAIN TopElements : TopElements[i] = GoodSpan
          => template.variables.t = "object" /\ sTopic \in DOMAIN template.variables.v

\* C11: validate never raises for a security violation but returns a report;
\* the violation is listed in securityIssues; every fault of structure and
\* every reference that does not resolve is listed in errors, not the first
\* only; and isValid is true exactly when errors and securityIssues are both
\* empty.
C11_ValidateReportsEverything ==
    op = "validated" =>
        /\ result.ok
        /\ result.v.isValid <=> (result.v.errors = <<>> /\ result.v.securityIssues = <<>>)
        /\ BrokenRule # "none" =>
              /\ result.v.securityIssues # <<>>
              /\ (\A i \in DOMAIN TopElements : ~Unreadable(TopElements[i]))
                    => result.v.securityIssues = <<Message("security", BrokenRule)>>
        /\ ~Truthy(template.version) => Message("missing version", 0) \in ReportedErrors
        /\ template.content.t = "undefined" => Message("missing content", 0) \in ReportedErrors
        /\ template.content.t = "string"
              => Message("content must be an array", 0) \in ReportedErrors
        /\ template.content = Arr(<<>>) => Message("content cannot be empty", 0) \in ReportedErrors
        /\ \A i \in DOMAIN TopElements :
              /\ TopElements[i] \in StructuralFaults
                    => Message(FaultKind(TopElements[i]), i - 1) \in ReportedErrors
              /\ \A ref \in UndefinedRefsOf(TopElements[i]) :
                    Message("variable", ref) \in ReportedErrors
        /\ template.extends = Arr(<<Str(sSchemaB)>>)
              => Message("schema loading", 0) \in ReportedErrors
        /\ Faultless => result.v.isValid

\* a template without version whose first text is on the deny-list and whose
\* second text is empty: one issue and both errors are reported
C11_Witness ==
    /\ op = "validated"
    /\ template.version = Undefined
    /\ TopElements = <<ScriptText, EmptyText>>
    /\ result.ok
    /\ result.v = ValidationResult(FALSE,
                                   <<Message("missing version", 0),
                                     Message("text missing text", 1)>>,
                                   <<>>,
                                   <<Message("security", "content_validation")>>)

\* the template fails the structural validation of validate: a required
\* field is missing or empty, or an element has a wrong type or shape
StructurallyInvalid ==
    \/ ~Truthy(template.version)
    \/ template.content.t # "array"
    \/ template.content = Arr(<<>>)
    \/ \E i \in DOMAIN TopElements : TopElements[i] \in StructuralFaults

\* C12: compile of a template that fails structural validation (and breaks
\* no security rule) raises ITSValidationError with the collected errors, and
\* enters no stage after validate: no substitution, no evaluation of
\* conditions, no assembly of a prompt.
C12_StructuralFailureRaisesValidationError ==
    (op = "compiled" /\ StructurallyInvalid /\ BrokenRule = "none") =>
        /\ ~result.ok
        /\ result.err = "ITSValidationError"
        /\ ~Truthy(template.version)
              => Message("missing version", 0) \in Range(result.validationErrors)
        /\ \A i \in DOMAIN TopElements :
              TopElements[i] \in StructuralFaults
                  => Message(FaultKind(TopElements[i]), i - 1) \in Range(result.validationErrors)
        /\ stages = <<"validateTemplate", "validate">>

\* C13: with localhost blocking enabled, validateSchemaUrl rejects every URL
\* whose host is localhost, 127.0.0.1, 0.0.0.0 or ::1, the IPv6 loopback in
\* the bracketed form of a URL included, in any letter case.
C13_LoopbackRejected ==
    (op = "validatedSchemaUrl" /\ config.blockLocalhost /\ url \in LoopbackUrls)
        => ~result.ok

\* C14: security validation is the first stage of compile and fails closed:
\* whenever validateTemplate rejects the template, compile fails having
\* entered no other stage, issues no fetch, leaves the cache and the log of
\* the loader as they were, and returns no prompt.
C14_SecurityFailsClosed ==
    [][(op = "compile" /\ ~validateTemplate(config, template).ok)
          => /\ ~result'.ok
             /\ stages' = <<"validateTemplate">>
             /\ cache' = cache
             /\ calls' = calls
             /\ events' = events]_vars

\* a template with a dangerous variable key that extends a schema the
\* network would serve: compile failed in its first stage and nothing was fetched
C14_Witness ==
    /\ op = "compiled"
    /\ template.variables.t = "object"
    /\ sConstructor \in DOMAIN template.variables.v
    /\ template.extends = Arr(<<Str(sSchemaA)>>)
    /\ ~result.ok
    /\ result.err = "ITSCompilationError"
    /\ stages = <<"validateTemplate">>
    /\ events = <<>>
    /\ cache = <<>>

\* the resolved URLs of the loadSchema calls of the model, and those of them
\* that validateSchemaUrl accepts under the default configuration
LoadUrls == {resolveUrl(input[1], input[2]) : input \in LoadInputs}
AcceptedLoadUrls == {u \in LoadUrls : validateSchemaUrl(DEFAULT_SECURITY_CONFIG, u).ok}

\* C15: over any sequence of loadSchema calls, overlapping or not, a fetch is
\* issued only for a resolved URL that validateSchemaUrl accepted in the same
\* call, a cached schema is returned only for such a URL, a call whose URL is
\* rejected does nothing else, and the cache holds entries of accepted URLs
\* only.
C15_OnlyValidatedUrlsReachCacheOrNetwork ==
    op = "loadSchema" =>
        /\ config = DEFAULT_SECURITY_CONFIG
        /\ \A j \in DOMAIN events :
              /\ events[j].kind \in {"fetch", "hit", "save"} =>
                    /\ events[j].url \in AcceptedLoadUrls
                    /\ calls[events[j].call].url = events[j].url
                    /\ \A k \in EventsOf(events[j].call) : events[k].kind # "rejected"
              /\ events[j].kind = "rejected" =>
                    /\ events[j].url \in LoadUrls \ AcceptedLoadUrls
                    /\ EventsOf(events[j].call) = {j}
                    /\ calls[events[j].call].state = "raised"
        /\ \A i \in DOMAIN calls :
              calls[i].url \notin AcceptedLoadUrls
                  => \E j \in EventsOf(i) : events[j].kind = "rejected"
        /\ DOMAIN cache \subseteq AcceptedLoadUrls

\* a private URL was rejected between the fetch of a public schema and the
\* call that was served it from the cache
C15_Witness ==
    /\ op = "loadSchema"
    /\ Len(events) = 4
    /\ events[1] = Event("fetch", 1, sSchemaUrl, 0, 0)
    /\ events[2] = Event("rejected", 2, sPrivateUrl, 0, 0)
    /\ events[3] = Event("save", 1, sSchemaUrl, 0, 1)
    /\ events[4] = Event("hit", 3, sSchemaUrl, 0, 1)
    /\ DOMAIN cache = {sSchemaUrl}

\* the entry of the log where the call looked up the cache, 0 when its URL
\* was rejected
LookupOf(call) ==
    IF \E j \in Lookups : events[j].call = call
    THEN CHOOSE j \in Lookups : events[j].call = call
    ELSE 0

\* the entry of the log where the call saved its schema, 0 when it has not
SaveOf(call) ==
    IF \E j \in DOMAIN events : events[j].kind = "save" /\ events[j].call = call
    THEN CHOOSE j \in DOMAIN events : events[j].kind = "save" /\ events[j].call = call
    ELSE 0

\* two calls for the same URL that both missed the cache, the second one
\* looking up before either saved
BothMissed(a, b) ==
    /\ a # b
    /\ calls[a].url = calls[b].url
    /\ LookupOf(a) # 0
    /\ LookupOf(a) < LookupOf(b)
    /\ ~FreshAt(LookupOf(a))
    /\ ~FreshAt(LookupOf(b))
    /\ SaveOf(a) = 0 \/ SaveOf(a) > LookupOf(b)

\* the calls of a pair that missed together fetch, each returns the schema
\* object of its own fetch, and right after the second of them saved, the
\* entry of the URL is that second one
InterleavedMissesBothFetch ==
    \A a, b \in DOMAIN calls :
        BothMissed(a, b) =>
            /\ events[LookupOf(a)].kind = "fetch"
            /\ events[LookupOf(b)].kind = "fetch"
            /\ \A c \in {a, b} :
                  SaveOf(c) # 0 =>
                      /\ calls[c].state = "returned"
                      /\ calls[c].result.ok
                      /\ calls[c].result.v.id = c
            /\ (SaveOf(a) # 0 /\ SaveOf(b) # 0) =>
                  \A last \in {a, b} :
                      SaveOf(last) = Len(events) =>
                          /\ calls[last].url \in DOMAIN cache
                          /\ cache[calls[last].url].schema = calls[last].result.v
                          /\ cache[calls[last].url].cachedAt = events[SaveOf(last)].time

\* a step of one call leaves what every other call has done and returned as
\* it was
OtherCallsUntouched ==
    \A c \in DOMAIN calls :
        (Len(events') > Len(events) /\ events'[Len(events')].call # c)
            => calls'[c] = calls[c]

\* a lookup of a URL whose entry has expired removes the entry and fetches
ExpiredLookupEvictsThenMisses ==
    \A key \in DOMAIN cache :
        (/\ now > cache[key].expiresAt
         /\ Len(events') > Len(events)
         /\ events'[Len(events')].kind \in {"hit", "fetch"}
         /\ events'[Len(events')].url = key)
            => /\ key \notin DOMAIN cache'
               /\ events'[Len(events')].kind = "fetch"

\* C16: when two loadSchema(U) calls both look up the cache before either
\* saves, both fetch, each returns the schema it fetched, neither is touched
\* by the steps of the other, and after both saved the cache holds for U the
\* entry of the one that saved last; a lookup that finds an expired entry
\* removes it and then behaves as a miss.
C16_ConcurrentMissesLastSaveWins ==
    /\ [](op = "loadSchema" => InterleavedMissesBothFetch)
    /\ [][OtherCallsUntouched /\ ExpiredLookupEvictsThenMisses]_vars

\* the entry of call 1 had expired; call 2 found it, removed it and fetched,
\* call 3 fetched too before either saved; call 3 saved first and call 2
\* last, and the cache holds the schema of call 2
C16_Witness ==
    /\ op = "loadSchema"
    /\ Len(events) = 6
    /\ events[1] = Event("fetch", 1, sSchemaUrl, 0, 0)
    /\ events[2] = Event("save", 1, sSchemaUrl, 0, 1)
    /\ events[3] = Event("fetch", 2, sSchemaUrl, cacheTTL + 1, 0)
    /\ events[4] = Event("fetch", 3, sSchemaUrl, cacheTTL + 1, 0)
    /\ events[5] = Event("save", 3, sSchemaUrl, cacheTTL + 1, 3)
    /\ events[6] = Event("save", 2, sSchemaUrl, cacheTTL + 1, 2)
    /\ DOMAIN cache = {sSchemaUrl}
    /\ cache[sSchemaUrl].schema.id = 2
    /\ calls[2].result.v.id = 2
    /\ calls[3].result.v.id = 3

\* the answers of the network with which a fetch attempt fails: a network
\* error, a timeout, a status that is not OK, a wrong content type, a body
\* that is too large by its header or by its length, a body that is no JSON,
\* no object, or declares an instruction type without a string template
FailingResponses == Responses \ {GoodResponse}

\* the entry of the log where the call's fetch failed, 0 when it has not
FailOf(call) ==
    IF \E j \in DOMAIN events : events[j].kind = "fail" /\ events[j].call = call
    THEN CHOOSE j \in DOMAIN events : events[j].kind = "fail" /\ events[j].call = call
    ELSE 0

\* a call that missed the cache has one fetch in the log; when the fetch
\* failed, the call did nothing but that fetch, has raised, and, no other call
\* having saved the URL since its lookup, the cache has no entry for the URL
\* right after the failure
MissFetchesOnce ==
    \A c \in DOMAIN calls :
        LET fetches == {k \in EventsOf(c) : events[k].kind = "fetch"}
        IN  /\ calls[c].state \in {"fetching", "raised"} /\ LookupOf(c) # 0
                  => Cardinality(fetches) = 1
            /\ Cardinality(fetches) <= 1
            /\ FailOf(c) # 0 =>
                  /\ EventsOf(c) = fetches \cup {FailOf(c)}
                  /\ calls[c].state = "raised"
                  /\ calls[c].result = SecurityError("schema_loading")
                  /\ (/\ FailOf(c) = Len(events)
                      /\ \A k \in LookupOf(c)..Len(events) :
                            ~(events[k].kind = "save" /\ events[k].url = calls[c].url))
                        => calls[c].url \notin DOMAIN cache

\* every failing answer makes loadFromUrl throw, whichever call fetched
EveryFailingResponseFails ==
    \A call \in 1..MaxCalls, response \in FailingResponses : ~loadFromUrl(call, response).ok

\* the step in which the fetch of a call settles is the one in which the call
\* returns or raises; when the fetch has failed, the call raises in that very
\* step, with no further fetch, and the cache is left as it was
FailureRaisesAtOnce ==
    \A call \in DOMAIN calls :
        (calls[call].state = "fetching" /\ calls'[call].state # "fetching") =>
            /\ EveryFailingResponseFails
            /\ Len(events') = Len(events) + 1
            /\ events'[Len(events')].call = call
            /\ events'[Len(events')].kind \in {"save", "fail"}
            /\ events'[Len(events')].kind = "fail" =>
                  /\ calls'[call].state = "raised"
                  /\ cache' = cache

\* C17: a loadSchema call that misses the cache issues exactly one fetch;
\* when the fetch fails, for whichever reason, the call raises at once
\* without another attempt and adds no entry to the cache.
C17_OneFetchNoRetry ==
    /\ [](op = "loadSchema" => MissFetchesOnce)
    /\ [][FailureRaisesAtOnce]_vars

\* the entry of call 1 had expired when call 2 looked up; the one fetch of
\* call 2 failed, call 2 raised and the cache has no entry for the URL
C17_Witness ==
    /\ op = "loadSchema"
    /\ Len(events) = 4
    /\ events[1] = Event("fetch", 1, sSchemaUrl, 0, 0)
    /\ events[2] = Event("save", 1, sSchemaUrl, 0, 1)
    /\ events[3] = Event("fetch", 2, sSchemaUrl, cacheTTL + 1, 0)
    /\ events[4] = Event("fail", 2, sSchemaUrl, cacheTTL + 1, 0)
    /\ calls[2].state = "raised"
    /\ calls[2].result = SecurityError("schema_loading")
    /\ cache = <<>>

MaxTopLevel == 3
MaxInBranch == 3
MaxNesting == 4

\* the configurations: those of the default one with the two limits lowered
ElementLimits == {2, 3}
DepthLimits == {1, 2}
LimitConfigs ==
    {[DEFAULT_SECURITY_CONFIG EXCEPT !.maxContentElements = e, !.maxNestingDepth = d] :
        e \in ElementLimits, d \in DepthLimits}

\* n text elements
Texts(n) == SubSeq(<<GoodElement, GoodElement, GoodElement, GoodElement>>, 1, n)

\* the content that is an array of the elements, left out when there is none
Branch(elements) == IF elements = <<>> THEN Undefined ELSE Arr(elements)

\* depth conditionals nested in each other through the branch named, the
\* innermost holding the leaf
RECURSIVE Nest(_, _, _)
Nest(depth, leaf, branch) ==
    IF depth = 0 THEN <<leaf>>
    ELSE IF branch = "content"
    THEN <<ConditionalElement(Str(sCountGt3), Arr(Nest(depth - 1, leaf, branch)), Undefined)>>
    ELSE <<ConditionalElement(Str(sCountGt3), Arr(<<GoodElement>>),
                              Arr(Nest(depth - 1, leaf, branch)))>>

LimitContents ==
    {Texts(top) \o <<ConditionalElement(Str(sCountGt3), Arr(Texts(inThen)),
                                        Branch(Texts(inElse)))>> :
        top \in 0..MaxTopLevel, inThen \in 0..MaxInBranch, inElse \in 0..MaxInBranch}
    \cup {Texts(n) : n \in 1..(MaxTopLevel + 1)}
    \cup {Nest(depth, leaf, branch) :
            depth \in 0..MaxNesting, leaf \in {GoodElement, ScriptText},
            branch \in {"content", "else"}}

InitLimits ==
    /\ op = "validateTemplate"
    /\ template \in {Template(content, Undefined) : content \in LimitContents}
    /\ callerVars = Unused
    /\ varRef = Unused
    /\ store = Unused
    /\ config \in LimitConfigs
    /\ url = Unused
    /\ result = Unused
    /\ cache = Unused
    /\ now = 0
    /\ calls = Unused
    /\ events = Unused
    /\ network = Unused
    /\ jsepBuild = Unused
    /\ stages = <<>>

NextLimits == ValidateTemplate

SpecLimits == InitLimits /\ [][NextLimits]_vars

\* the number of content elements of a content array, those in the branches
\* of its conditionals included
RECURSIVE ElementCount(_)
ElementCount(content) ==
    IF content.t # "array" THEN 0
    ELSE LET Count[i \in 0..Len(content.v)] ==
                 IF i = 0 THEN 0
                 ELSE Count[i - 1] + 1
                      + (IF content.v[i].type = "conditional"
                         THEN ElementCount(content.v[i].content)
                              + ElementCount(content.v[i].else)
                         ELSE 0)
         IN  Count[Len(content.v)]

\* how deep the conditionals of a content array nest: 0 without conditional
RECURSIVE NestingOf(_)
NestingOf(content) ==
    IF content.t # "array" THEN 0
    ELSE LET Deepest[i \in 0..Len(content.v)] ==
                 IF i = 0 THEN 0
                 ELSE LET below == IF content.v[i].type = "conditional"
                                   THEN 1 + (IF NestingOf(content.v[i].content)
                                                  > NestingOf(content.v[i].else)
                                             THEN NestingOf(content.v[i].content)
                                             ELSE NestingOf(content.v[i].else))
                                   ELSE 0
                      IN  IF below > Deepest[i - 1] THEN below ELSE Deepest[i - 1]
         IN  Deepest[Len(content.v)]

\* C19: validateTemplate rejects every template with more content elements
\* than maxContentElements, the elements in the branches of conditionals
\* counted with those of the top level, and every template whose
\* conditionals nest deeper than maxNestingDepth; a branch that is too deep
\* is rejected for its depth before any of its elements is scanned.
C19_ElementAndDepthLimits ==
    op = "validatedTemplate" =>
        /\ ElementCount(template.content) > config.maxContentElements => ~result.ok
        /\ NestingOf(template.content) > config.maxNestingDepth => ~result.ok
        /\ (/\ NestingOf(template.content) > config.maxNestingDepth
            /\ Len(template.content.v) <= config.maxContentElements)
              => ~result.ok /\ result.rule = "nesting_depth"

(***************************************************************************)
(* SpecIdentifiers: evaluateContent on one conditional element whose       *)
(* condition names variables the store has, names it has not, and names    *)
(* every JavaScript object inherits, alone and beside other operands.      *)
(***************************************************************************)
sShowExtra == <<"s","h","o","w","E","x","t","r","a">>

\* the conditions, each with the identifiers it holds
ConditionNames ==
    (sCountGt3 :> {sCount})
    @@ (sMissing :> {sMissing})
    @@ (sToString :> {sToString})
    @@ (sConstructor :> {sConstructor})
    @@ (<<"!","t","o","S","t","r","i","n","g">> :> {sToString})
    @@ (<<"v","a","l","u","e","O","f"," ","=","="," ","1">> :> {sValueOf})
    @@ (<<"s","h","o","w","E","x","t","r","a"," ","|","|"," ","m","i","s","s","i","n","g">> :> {sShowExtra, sMissing})
    @@ (<<"s","h","o","w","E","x","t","r","a"," ","&","&"," ","m","i","s","s","i","n","g">> :> {sShowExtra, sMissing})
    @@ (<<"m","i","s","s","i","n","g"," ","|","|"," ","s","h","o","w","E","x","t","r","a">> :> {sShowExtra, sMissing})
    @@ (<<"c","o","u","n","t"," ",">"," ","3"," ","&","&"," ","t","o","S","t","r","i","n","g">> :> {sCount, sToString})
    @@ (<<"i","t","e","m","s",".","l","e","n","g","t","h">> :> {sItems})
    @@ (<<"m","i","s","s","i","n","g",".","l","e","n","g","t","h">> :> {sMissing})
    @@ (<<"c","o","u","n","t"," ","=","="," ","c","o","n","s","t","r","u","c","t","o","r">> :> {sCount, sConstructor})

\* the variables: those of the conditional contents, none at all, and a store
\* that defines toString itself
IdentifierStores ==
    ConditionStores \cup {Obj(<<>>), Obj((sToString :> Bool(FALSE)) @@ (sCount :> Num(5)))}

IdentifierContents ==
    UNION {{<<ConditionalElement(Str(c), Arr(<<Marked(<<"k","e","p","t">>)>>), Undefined)>>,
            <<ConditionalElement(Str(c), Arr(<<Marked(<<"k","e","p","t">>)>>),
                                 Arr(<<Marked(<<"o","t","h","e","r">>)>>))>>} : c \in DOMAIN ConditionNames}

InitIdentifiers ==
    /\ op = "evaluateContent"
    /\ template \in {Template(content, Obj(<<>>)) : content \in IdentifierContents}
    /\ callerVars = Unused
    /\ varRef = Unused
    /\ store \in IdentifierStores
    /\ config = DEFAULT_SECURITY_CONFIG
    /\ url = Unused
    /\ result = Unused
    /\ cache = Unused
    /\ now = 0
    /\ calls = Unused
    /\ events = Unused
    /\ network = Unused
    /\ jsepBuild \in {"LogicalExpression", "BinaryExpression"}
    /\ stages = <<>>

NextIdentifiers == EvaluateContent

SpecIdentifiers == InitIdentifiers /\ [][NextIdentifiers]_vars

\* the condition of the one element of the template
TheCondition == template.content.v[1].condition.v

\* the identifiers of the condition that are no key of the variables
UndefinedNames == ConditionNames[TheCondition] \ DOMAIN store.v

\* C20: evaluateCondition raises for every identifier of the expression that
\* is not a key defined in the variables, the names that only the object
\* prototype has (toString, constructor) included: a condition with such a
\* name never yields true or false, so that evaluateContent fails.
C20_UndefinedIdentifierRaises ==
    (op = "evaluatedContent" /\ UndefinedNames # {}) =>
        /\ ~result.ok
        /\ ~evaluateCondition(jsepBuild, config.maxExpressionLength, TheCondition, store).ok

(***************************************************************************)
(* SpecIndex: evaluateContent on one conditional element whose condition   *)
(* compares a bracketed index of the array items with a string or with     *)
(* null.  The elements of items are different strings, so the comparison   *)
(* tells which element the index read.                                     *)
(***************************************************************************)
MaxMemberIndex == 4

Letters == <<Str(<<"a">>), Str(<<"b">>), Str(<<"c">>)>>

\* the arrays of length 0 to 3
ItemArrays == {Arr(SubSeq(Letters, 1, n)) : n \in 0..Len(Letters)}

\* what the indexed element is compared with: a string literal or null
ComparedLiterals == {<<"'","a","'">>, <<"'","b","'">>, <<"'","c","'">>, <<"n","u","l","l">>}

IndexCases ==
    {[n |-> n, literal |-> literal] : n \in (0 - MaxMemberIndex)..MaxMemberIndex, literal \in ComparedLiterals}

\* the text items[n] == literal
IndexCondition(case) == <<"i","t","e","m","s","[">> \o NumberToString(case.n) \o <<"]"," ","=","="," ">> \o case.literal

IndexContents ==
    {<<ConditionalElement(Str(IndexCondition(case)), Arr(<<Marked(<<"k","e","p","t">>)>>),
                          Arr(<<Marked(<<"o","t","h","e","r">>)>>))>> : case \in IndexCases}

InitIndex ==
    /\ op = "evaluateContent"
    /\ template \in {Template(content, Obj(<<>>)) : content \in IndexContents}
    /\ callerVars = Unused
    /\ varRef = Unused
    /\ store \in {Obj(sItems :> items) : items \in ItemArrays}
    /\ config = DEFAULT_SECURITY_CONFIG
    /\ url = Unused
    /\ result = Unused
    /\ cache = Unused
    /\ now = 0
    /\ calls = Unused
    /\ events = Unused
    /\ network = Unused
    /\ jsepBuild \in {"LogicalExpression", "BinaryExpression"}
    /\ stages = <<>>

NextIndex == EvaluateContent

SpecIndex == InitIndex /\ [][NextIndex]_vars

\* the case the condition of the template was written from
TheIndexCase == CHOOSE case \in IndexCases : IndexCondition(case) = TheCondition

\* the literal as a value: the string between the quotes, or null
LiteralValue(literal) == IF literal = <<"n","u","l","l">> THEN Null ELSE Str(<<literal[2]>>)

\* the element index n stands for in an array: n from the start, or from
\* the end when n is negative
IndexedElement(items, n) == IF n >= 0 THEN items[n + 1] ELSE items[Len(items) + n + 1]

IndexInRange(items, n) == (0 - Len(items)) <= n /\ n < Len(items)

\* C21: a bracketed index n on an array of length L is element n when
\* 0 <= n < L and element L+n when -L <= n < 0, so that the comparison of
\* items[n] with a literal holds exactly when that element is the literal,
\* and is an evaluation error for every other n; it is never undefined, so
\* an index in range never equals null.
C21_IndexedElement ==
    op = "evaluatedContent" =>
        LET items == store.v[sItems].v
            case == TheIndexCase
        IN  IF IndexInRange(items, case.n)
            THEN /\ result.ok
                 /\ result.v = IF IndexedElement(items, case.n) = LiteralValue(case.literal)
                               THEN <<Marked(<<"k","e","p","t">>)>> ELSE <<Marked(<<"o","t","h","e","r">>)>>
            ELSE ~result.ok

(***************************************************************************)
(* SpecShortCircuit: evaluateContent on one conditional element whose      *)
(* condition joins a left operand that always evaluates with a right       *)
(* operand that may fail: an undefined variable, an index out of range,    *)
(* or a comparison that evaluates.                                         *)
(***************************************************************************)
LeftOperands == {sShowExtra, <<"!","s","h","o","w","E","x","t","r","a">>, sCountGt3, <<"t","r","u","e">>, <<"f","a","l","s","e">>}

RightOperands == {sMissing, <<"i","t","e","m","s","[","5","]"," ","=","="," ","'","h","i","'">>, <<"c","o","u","n","t"," ","=","="," ","5">>}

JoinCases ==
    {[left |-> left, operator |-> operator, right |-> right] :
        left \in LeftOperands, operator \in {<<"&","&">>, <<"|","|">>}, right \in RightOperands}

\* the text left operator right
JoinCondition(case) == case.left \o <<" ">> \o case.operator \o <<" ">> \o case.right

JoinContents ==
    {<<ConditionalElement(Str(JoinCondition(case)), Arr(<<Marked(<<"k","e","p","t">>)>>),
                          Arr(<<Marked(<<"o","t","h","e","r">>)>>))>> : case \in JoinCases}

InitShortCircuit ==
    /\ op = "evaluateContent"
    /\ template \in {Template(content, Obj(<<>>)) : content \in JoinContents}
    /\ callerVars = Unused
    /\ varRef = Unused
    /\ store \in ConditionStores
    /\ config = DEFAULT_SECURITY_CONFIG
    /\ url = Unused
    /\ result = Unused
    /\ cache = Unused
    /\ now = 0
    /\ calls = Unused
    /\ events = Unused
    /\ network = Unused
    /\ jsepBuild \in {"LogicalExpression", "BinaryExpression"}
    /\ stages = <<>>

NextShortCircuit == EvaluateContent

SpecShortCircuit == InitShortCircuit /\ [][NextShortCircuit]_vars

\* the case the condition of the template was written from
TheJoinCase == CHOOSE case \in JoinCases : JoinCondition(case) = TheCondition

\* what an operand alone evaluates to under the variables
OperandAlone(operand) == evaluateCondition(jsepBuild, config.maxExpressionLength, operand, store)

\* the left operand decides the result: falsy under &&, truthy under ||
LeftDecides(case) ==
    /\ OperandAlone(case.left).ok
    /\ OperandAlone(case.left).v.v = (case.operator = <<"|","|">>)

\* C22: logical and/or short-circuit: in a && b with a falsy, and in a || b
\* with a truthy, b is never evaluated, so an undefined variable or an index
\* out of range in b does not make the evaluation fail: the condition is
\* false for &&, true for ||.
C22_ShortCircuit ==
    (op = "evaluatedContent" /\ LeftDecides(TheJoinCase)) =>
        /\ result.ok
        /\ result.v = IF TheJoinCase.operator = <<"|","|">>
                      THEN <<Marked(<<"k","e","p","t">>)>> ELSE <<Marked(<<"o","t","h","e","r">>)>>

(***************************************************************************)
(* SpecWords: evaluateContent on one conditional element whose condition   *)
(* is written with the operators &&, || and !, or with the words and, or   *)
(* and not in their place.                                                 *)
(***************************************************************************)
SymbolConditions ==
    {<<"s","h","o","w","E","x","t","r","a"," ","&","&"," ","c","o","u","n","t"," ",">"," ","3">>, <<"s","h","o","w","E","x","t","r","a"," ","|","|"," ","c","o","u","n","t"," ",">"," ","3">>, <<"!","s","h","o","w","E","x","t","r","a">>,
     <<"!","(","c","o","u","n","t"," ",">"," ","3",")"," ","|","|"," ","s","h","o","w","E","x","t","r","a">>, <<"c","o","u","n","t"," ",">"," ","3"," ","&","&"," ","!","s","h","o","w","E","x","t","r","a">>,
     <<"c","o","u","n","t"," ","!","="," ","5"," ","|","|"," ","s","h","o","w","E","x","t","r","a">>, <<"c","o","u","n","t"," ","!","="," ","5">>}

\* the text with and for &&, or for || and not for the operator !
RECURSIVE WordForm(_)
WordForm(text) ==
    IF text = <<>> THEN <<>>
    ELSE IF Len(text) >= 2 /\ SubSeq(text, 1, 2) = <<"&","&">> THEN <<"a","n","d">> \o WordForm(SubSeq(text, 3, Len(text)))
    ELSE IF Len(text) >= 2 /\ SubSeq(text, 1, 2) = <<"|","|">> THEN <<"o","r">> \o WordForm(SubSeq(text, 3, Len(text)))
    ELSE IF Len(text) >= 2 /\ SubSeq(text, 1, 2) = <<"!","=">> THEN <<"!","=">> \o WordForm(SubSeq(text, 3, Len(text)))
    ELSE IF Head(text) = "!" THEN <<"n","o","t"," ">> \o WordForm(Tail(text))
    ELSE <<Head(text)>> \o WordForm(Tail(text))

WordConditions == {WordForm(condition) : condition \in SymbolConditions}

\* one conditional element with the condition, an else branch beside it
Deciding(condition) ==
    <<ConditionalElement(Str(condition), Arr(<<Marked(<<"k","e","p","t">>)>>), Arr(<<Marked(<<"o","t","h","e","r">>)>>))>>

InitWords ==
    /\ op = "evaluateContent"
    /\ template \in {Template(Deciding(condition), Obj(<<>>)) :
                        condition \in SymbolConditions \cup WordConditions}
    /\ callerVars = Unused
    /\ varRef = Unused
    /\ store \in ConditionStores
    /\ config = DEFAULT_SECURITY_CONFIG
    /\ url = Unused
    /\ result = Unused
    /\ cache = Unused
    /\ now = 0
    /\ calls = Unused
    /\ events = Unused
    /\ network = Unused
    /\ jsepBuild \in {"LogicalExpression", "BinaryExpression"}
    /\ stages = <<>>

NextWords == EvaluateContent

SpecWords == InitWords /\ [][NextWords]_vars

\* the conditions in symbols that the condition of the template is the word form of
SymbolFormsOfTheCondition == {condition \in SymbolConditions : WordForm(condition) = TheCondition}

\* C23: for every accepted expression, the expression with and for &&, or
\* for || and not for ! is accepted as well and evaluates to the same
\* boolean under the same variables.
C23_WordOperatorsEquivalent ==
    op = "evaluatedContent" =>
        \A condition \in SymbolFormsOfTheCondition :
            LET symbols == evaluateContent(jsepBuild, config.maxExpressionLength,
                                           Deciding(condition), store)
            IN  symbols.ok => (result.ok /\ result.v = symbols.v)

(***************************************************************************)
(* SpecMember: evaluateContent on one conditional element whose condition  *)
(* is a member access, dotted or bracketed with a string, on a variable    *)
(* that is an object, an array, a number, a boolean, null, undefined, or   *)
(* the function every object inherits as toString.                         *)
(***************************************************************************)
MemberBases == {sUser, sItems, sCount, sShowExtra, <<"n","o","t","h","i","n","g">>, <<"u","n","d","e","f">>, sToString}

MemberProperties ==
    {sName, sConstructor, sPrototype, sProto, <<"_","_","d","e","f","i","n","e","G","e","t","t","e","r","_","_">>, <<"_","_","l","o","o","k","u","p","S","e","t","t","e","r","_","_">>}

MemberCases ==
    {[base |-> base, property |-> property, bracketed |-> bracketed] :
        base \in MemberBases, property \in MemberProperties, bracketed \in BOOLEAN}

\* the text base.property or base['property']
MemberCondition(case) ==
    IF case.bracketed THEN case.base \o <<"[","'">> \o case.property \o <<"'","]">>
    ELSE case.base \o <<".">> \o case.property

\* the variables: user has a name and, in one store, a key constructor of its own
MemberStores ==
    {Obj((sUser :> Obj(user)) @@ (sItems :> Arr(<<Str(<<"a">>)>>)) @@ (sCount :> Num(5))
         @@ (sShowExtra :> Bool(TRUE)) @@ (<<"n","o","t","h","i","n","g">> :> Null) @@ (<<"u","n","d","e","f">> :> Undefined)) :
        user \in {sName :> Str(<<"x">>),
                  (sName :> Str(<<"x">>)) @@ (sConstructor :> Str(<<"o","w","n">>))}}

InitMember ==
    /\ op = "evaluateContent"
    /\ template \in {Template(Deciding(MemberCondition(case)), Obj(<<>>)) : case \in MemberCases}
    /\ callerVars = Unused
    /\ varRef = Unused
    /\ store \in MemberStores
    /\ config = DEFAULT_SECURITY_CONFIG
    /\ url = Unused
    /\ result = Unused
    /\ cache = Unused
    /\ now = 0
    /\ calls = Unused
    /\ events = Unused
    /\ network = Unused
    /\ jsepBuild \in {"LogicalExpression", "BinaryExpression"}
    /\ stages = <<>>

NextMember == EvaluateContent

SpecMember == InitMember /\ [][NextMember]_vars

\* the case the condition of the template was written from
TheMemberCase == CHOOSE case \in MemberCases : MemberCondition(case) = TheCondition

\* the base is a variable of the store that holds an object or an array
CompositeBase(base) == base \in DOMAIN store.v /\ store.v[base].t \in {"object", "array"}

\* C24: member access other than length requires a non-null composite base:
\* it is an evaluation error when the base is null, undefined, a number, a
\* boolean or a callable, and when the property is constructor, prototype,
\* __proto__ or a __define/__lookup accessor, dotted or bracketed, even if
\* the base has such a key; no evaluation returns a value read through such
\* a property.
C24_MemberAccessGuarded ==
    (op = "evaluatedContent"
     /\ (~CompositeBase(TheMemberCase.base) \/ TheMemberCase.property \in dangerousProperties)) =>
        ~result.ok

\* the text and placeholder elements of a content in document order, those
\* of both branches of every conditional included
RECURSIVE Leaves(_)
Leaves(content) ==
    IF content = <<>> THEN <<>>
    ELSE IF Head(content).type # "conditional" THEN <<Head(content)>> \o Leaves(Tail(content))
    ELSE Leaves(Head(content).content.v)
         \o (IF Head(content).else.t = "array" THEN Leaves(Head(content).else.v) ELSE <<>>)
         \o Leaves(Tail(content))

\* part taken from whole in the order of whole
RECURSIVE IsSubsequence(_, _)
IsSubsequence(part, whole) ==
    IF part = <<>> THEN TRUE
    ELSE IF whole = <<>> THEN FALSE
    ELSE IF Head(part) = Head(whole) THEN IsSubsequence(Tail(part), Tail(whole))
    ELSE IsSubsequence(part, Tail(whole))

\* the elements of the content of the template that stand outside every conditional
Unconditional == SelectSeq(template.content.v, LAMBDA element : element.type # "conditional")

\* C25: the sequence evaluateContent returns holds no conditional element
\* at any position, for any nesting of conditionals; its text and
\* placeholder elements stand in the order of the input document, each
\* once, and the elements outside every conditional are all among them.
C25_FlatInDocumentOrder ==
    (op = "evaluatedContent" /\ result.ok) =>
        /\ \A i \in 1..Len(result.v) : result.v[i].type # "conditional"
        /\ IsSubsequence(result.v, Leaves(template.content.v))
        /\ \A i, j \in 1..Len(result.v) : result.v[i] = result.v[j] => i = j
        /\ IsSubsequence(Unconditional, result.v)

\* a conditional nested in the chosen branch of a conditional was evaluated
\* and its branch stands after the element before it
C25_Witness ==
    /\ op = "evaluatedContent"
    /\ result.ok
    /\ result.v = <<Marked(<<"k","e","p","t">>), Marked(<<"i","n","n","e","r"," ","k","e","p","t">>)>>

(***************************************************************************)
(* SpecMerged: compile for templates that read the variable note in a      *)
(* span, in a condition, or not at all, with variables of the template     *)
(* and of the caller that are safe, that hold a key of the unsafe set, or  *)
(* that hold a string of the text deny-list.  One span reads a path into   *)
(* user that the caller can break, and one condition names a variable      *)
(* that nothing defines.                                                   *)
(***************************************************************************)
sNote == <<"n","o","t","e">>

sSecret == <<"_","_","s","e","c","r","e","t">>

NoteContents ==
    {<<TextElement(Str(SpanText(sNote)))>>,
     <<TextElement(Str(<<"H","e","l","l","o"," ","w","o","r","l","d">>))>>,
     <<ConditionalElement(Str(<<"n","o","t","e"," ","=","="," ","'","o","k","'">>), Arr(<<TextElement(Str(sBig))>>),
                          Arr(<<TextElement(Str(sSmall))>>))>>,
     <<TextElement(Str(SpanText(<<"u","s","e","r",".","n","o","t","e">>)))>>,
     <<ConditionalElement(Str(<<"m","i","s","s","i","n","g"," ","=","="," ","'","o","k","'">>), Arr(<<TextElement(Str(sBig))>>),
                          Arr(<<TextElement(Str(sSmall))>>))>>}

UnsafeEntries ==
    {sNote :> ScriptText.text, sNote :> Str(<<"j","a","v","a","s","c","r","i","p","t",":","a","l","e","r","t","(","1",")">>), sSecret :> Str(<<"s">>),
     sConstructor :> Str(<<"c">>), sPrototype :> Str(<<"p">>),
     sUser :> Obj(sNote :> ScriptText.text)}

SafeEntries == (sNote :> Str(<<"o","k">>)) @@ (sUser :> Obj(sNote :> Str(<<"o","k">>)))

NoteVariablesOfTemplate == {Obj(SafeEntries)} \cup {Obj(entry @@ SafeEntries) : entry \in UnsafeEntries}

NoteVariablesOfCaller ==
    {Undefined, Obj(sNote :> Str(<<"f","i","n","e">>)), Obj(sUser :> Num(1))}
    \cup {Obj(entry) : entry \in UnsafeEntries}

InitMerged ==
    /\ op = "compile"
    /\ template \in {Template(content, variables) :
                        content \in NoteContents, variables \in NoteVariablesOfTemplate}
    /\ callerVars \in NoteVariablesOfCaller
    /\ varRef = Unused
    /\ store = Unused
    /\ config = DEFAULT_SECURITY_CONFIG
    /\ url = Undefined
    /\ result = Unused
    /\ cache = <<>>
    /\ now = 0
    /\ calls = <<>>
    /\ events = <<>>
    /\ network = <<>>
    /\ jsepBuild \in {"LogicalExpression", "BinaryExpression"}
    /\ stages = <<>>

NextMerged == Compile

SpecMerged == InitMerged /\ [][NextMerged]_vars

\* the store compile hands to processContent and evaluateContent
MergedStore == MergeVariables(TemplateVariables(template), callerVars)

\* a key of the unsafe set
UnsafeKey(key) == key \in {sProto, sConstructor, sPrototype} \/ StartsWith(key, <<"_","_">>)

\* a string of the text deny-list
DeniedString(value) == value.t = "string" /\ ~validateTextContent(value).ok

\* the object holds an unsafe key or a denied string, itself or in an object it holds
HoldsUnsafe(object) ==
    \E key \in DOMAIN object.v :
        \/ UnsafeKey(key)
        \/ DeniedString(object.v[key])
        \/ /\ object.v[key].t = "object"
           /\ \E inner \in DOMAIN object.v[key].v :
                 UnsafeKey(inner) \/ DeniedString(object.v[key].v[inner])

\* C26: the merged variable store that compile uses for substitution and
\* condition evaluation never holds a key of the unsafe set nor a string of
\* the text deny-list, whether the entry came from template.variables or
\* from the variables of the caller.
C26_MergedStoreSafe ==
    (op = "compiled" /\ "processContent" \in Range(stages)) => ~HoldsUnsafe(MergedStore)

\* the references of the template that the merged store does not answer
UnresolvedAgainstMerged == VariableProcessor_validateVariables(template.content, MergedStore)

\* compile raised the validation error, with a reference among its errors
RaisedForReference ==
    /\ ~result.ok
    /\ result.err = "ITSValidationError"
    /\ \E i \in DOMAIN result.validationErrors : result.validationErrors[i].kind = "variable"

\* C27: compile succeeds when every ${...} reference of the template
\* resolves against the merged variable store, a reference to a name that
\* only the variables of the caller define included: the reference check
\* inside compile judges references against the store substitution uses.
C27_ReferencesJudgedAgainstMergedStore ==
    (op = "compiled" /\ UnresolvedAgainstMerged = <<>>) =>
        /\ ~RaisedForReference
        /\ template.content.v \in MergeContents => result.ok

\* the last stage compile entered
LastStage == stages[Len(stages)]

ExtendsEntries == {sSchemaA, <<"a">>, <<".","/","a">>, <<"b">>}

BaseUrls == {Undefined, Str(sBaseUrl), Str(sPrivateBaseUrl)}

ExtendingTemplates ==
    {[Template(content, Obj(sTopic :> Str(<<"x">>))) EXCEPT !.extends = Arr(<<Str(entry)>>)] :
        entry \in ExtendsEntries,
        content \in {<<TextElement(Str(<<"H","e","l","l","o"," ","w","o","r","l","d">>))>>,
                     <<TextElement(Str(<<"I","t","e","m","s",":"," ">>)),
                       PlaceholderElement(Str(sList), Obj(sDescription :> Str(<<"t","h","i","n","g","s">>)))>>}}

InitExtends ==
    /\ op \in {"validate", "compile"}
    /\ template \in ExtendingTemplates
    /\ callerVars = Undefined
    /\ varRef = Unused
    /\ store = Unused
    /\ config = DEFAULT_SECURITY_CONFIG
    /\ url \in BaseUrls
    /\ result = Unused
    /\ cache = <<>>
    /\ now = 0
    /\ calls = <<>>
    /\ events = <<>>
    /\ network = ValidateNetwork
    /\ jsepBuild \in {"LogicalExpression", "BinaryExpression"}
    /\ stages = <<>>

NextExtends == Validate \/ Compile

SpecExtends == InitExtends /\ [][NextExtends]_vars

\* the one entry of extends
TheEntry == template.extends.v[1].v

\* the entry is relative, a baseUrl is given, and URL validation accepts
\* the entry resolved against it
AcceptableRelativeEntry ==
    /\ url.t = "string"
    /\ ~isAbsoluteUrl(TheEntry)
    /\ validateSchemaUrl(config, resolveUrl(TheEntry, url)).ok

\* the schema at the resolved URL was fetched
EntryLoaded ==
    \E i \in DOMAIN events :
        events[i].kind = "fetch" /\ events[i].url = resolveUrl(TheEntry, url)

\* C29: when an entry of extends is a relative URL and compile or validate
\* is given a baseUrl, the entry is resolved against baseUrl before URL
\* validation judges it: a relative entry whose resolved URL is acceptable
\* is loaded, not rejected as an invalid URL.
C29_RelativeExtendsResolvedFirst ==
    (op \in {"compiled", "validated"} /\ AcceptableRelativeEntry) =>
        /\ EntryLoaded
        /\ op = "validated" => result.v.securityIssues = <<>>
        /\ op = "compiled" =>
              ~(~result.ok /\ result.err = "ITSCompilationError"
                /\ result.cause.rule = "url_validation")

\* the clearCache calls, by their place in the log
Clears == {c \in DOMAIN events : events[c].kind = "clear"}

\* the saves after place c in the log by a loadSchema that started after it
SavesOfLaterCalls(c) ==
    {i \in DOMAIN events :
        i > c /\ events[i].kind = "save" /\ LookupOf(events[i].call) > c}

\* C30: after clearCache returns the cache stays empty until a loadSchema
\* that started after the clear completes a fetch; a fetch that was in
\* flight when clearCache ran does not put its result into the cache.
C30_ClearedStaysEmpty ==
    op = "loadSchema" =>
        \A c \in Clears :
            (\A d \in Clears : d <= c) /\ SavesOfLaterCalls(c) = {} => DOMAIN cache = {}

====
